---------------------------- MODULE Spec2Model ----------------------------
(***************************************************************************)
(* Model of agenticRAG-MCP: the retrieve/compress workflow                 *)
(* (src/src/agents), the embedding cache (src/src/indexing/embedder.py)    *)
(* the repository indexer (src/src/indexing/indexer.py with               *)
(* src/src/storage/vector_store.py) and the text chunker                   *)
(* (src/src/indexing/chunker.py).                                          *)
(*                                                                         *)
(* One set of variables carries five specifications:                       *)
(*   SpecWorkflow  one query driven through the LangGraph workflow;        *)
(*   SpecCache     one EmbeddingCache under arbitrary get and put calls;   *)
(*   SpecIndex     two successive index_repository runs over one           *)
(*                 collection;                                             *)
(*   SpecChunker   one call of TextChunker.chunk_text;                     *)
(*   SpecEmbed     one call of Embedder.embed_texts from _process_file.    *)
(* A specification leaves the variables of the others at their initial     *)
(* values.                                                                 *)
(***************************************************************************)
EXTENDS Integers, Sequences, FiniteSets, TLC

VARIABLES
    \* ---- AgentState (src/src/agents/base.py) and the workflow position
    wpc,                \* position of the query in the graph
    max_iterations,
    current_iteration,
    search_history,
    retrieved_chunks,
    total_tokens,
    total_cost,         \* in millionths of a dollar
    sufficient_context,
    final_answer,
    search_query,       \* local of RetrieverAgent.run between its awaits
    log,                \* reasons logged by should_continue_retrieval
    turns,              \* history: the starts and ends of the agents' turns, in order
    wf_hist,            \* history: the LLM calls of the turn, the texts they
                        \* returned, the Compressor's response, what raised
    \* ---- EmbeddingCache (src/src/indexing/embedder.py)
    cache,              \* the dict, as a sequence of <<text, result>> in dict order
    hits,
    misses,
    cache_hist,         \* history: insertion stamps, last put value, last call
    \* ---- RepoIndexer and the collection it writes to
    ipc,                \* position of index_repository
    semaphore,          \* free slots of asyncio.Semaphore(max_concurrent)
    run,                \* which indexing run this is (1 or 2)
    files,              \* what the walker yields: per file its content and failures
    task,               \* per file task: position and locals of _process_file
    stats,              \* RepoIndexer.stats
    collection,         \* the repo's entries in the ChromaDB collection
    index_hist,         \* history: files that raised, ids after run 1, written this run
    \* ---- TextChunker.chunk_text (src/src/indexing/chunker.py)
    cpc,                \* position of chunk_text
    ck_content,         \* argument content: the text, a sequence of characters
    language,           \* argument
    lines,              \* content.split('\n')
    boundaries,
    section,            \* the loop variable i of chunk_text, from 0
    ck_chunk_index,     \* local chunk_index
    ck_chunks,          \* local chunks, returned at the end
    chunk_hist,         \* history: the chunks as they were before the overlap pass
    \* --- Embedder.embed_texts, called by _process_file for one file
    epc,                \* where the call is
    em_texts,           \* argument texts (chunk_texts of the file)
    em_i,               \* loop variable i of embed_texts
    attempt_number,     \* attempt of the _embed_batch call in progress
    em_results,         \* local results of embed_texts
    em_raised,          \* the exception embed_texts raised into _process_file
    em_errors,          \* stats["errors"]
    em_hist,            \* history: what each attempt of the present batch met
    \* --- CompressorAgent.run on a state with retrieved chunks
    kpc,                \* where the call is
    kp_retrieved,       \* state.retrieved_chunks
    chunks_by_file,     \* the dict _group_chunks_by_file returns, in key order
    context,            \* the context string of _compress_chunks
    \* --- IndexingWorker and the enqueue_indexing_job calls, over Redis
    job_queue,          \* the Redis list agenticrag:indexing:queue
    job_status,         \* "status" of the value under each job's status key
    job_result,         \* the value under each job's result key
    enqueue_pc,         \* where the enqueue_indexing_job call of each job is
    worker_pc,          \* where the worker is
    worker_job,         \* the job process_job is working on
    worker_hist         \* history: jobs in rpush order and in blpop order

wfVars == <<wpc, max_iterations, current_iteration, search_history,
            retrieved_chunks, total_tokens, total_cost, sufficient_context,
            final_answer, search_query, log, turns, wf_hist>>
cacheVars == <<cache, hits, misses, cache_hist>>
indexVars == <<ipc, semaphore, run, files, task, stats, collection, index_hist>>
chunkVars == <<cpc, ck_content, language, lines, boundaries, section,
               ck_chunk_index, ck_chunks, chunk_hist>>
embedVars == <<epc, em_texts, em_i, attempt_number, em_results, em_raised,
               em_errors, em_hist>>
compVars == <<kpc, kp_retrieved, chunks_by_file, context>>
workerVars == <<job_queue, job_status, job_result, enqueue_pc, worker_pc,
                worker_job, worker_hist>>
vars == <<wfVars, cacheVars, indexVars, chunkVars, embedVars, compVars, workerVars>>

None == "None"

MaxOf(a, b) == IF a >= b THEN a ELSE b
MinOf(a, b) == IF a <= b THEN a ELSE b

Range(s) == {s[i] : i \in 1..Len(s)}

Count(s, e) == Cardinality({i \in 1..Len(s) : s[i] = e})

\* The subsequence of s whose elements are in keep, order preserved
\* (a Python list comprehension with a filter).
RECURSIVE FilterSeq(_, _)
FilterSeq(s, keep) ==
    IF s = << >> THEN << >>
    ELSE IF Head(s) \in keep THEN <<Head(s)>> \o FilterSeq(Tail(s), keep)
         ELSE FilterSeq(Tail(s), keep)

(***************************************************************************)
(*                      WORKFLOW: retrieve / compress                      *)
(***************************************************************************)

\* Largest max_iterations a query is started with in the model; the request
\* field is an unvalidated int, so 0 is a value the program accepts.
MaxIterationsBound == 3

\* settings.max_tokens_retrieval
max_tokens_retrieval == 10000

\* response.usage.total_tokens of one chat completion: a small and a large call.
TokenCosts == {100, 6000}

\* Ids the vector search can return, and the result lists of one search
\* (ChromaDB returns each record at most once, best match first).
ChunkIds == {"c1", "c2"}
SearchResults == {<< >>, <<"c1">>, <<"c1", "c2">>, <<"c2", "c1">>}

\* settings.retrieval_model and settings.compression_model
retrieval_model == "gpt-4.1"
compression_model == "gpt-4.1-mini"

\* Agent._calculate_cost, in millionths of a dollar: 80% of the tokens at
\* the model's input price and 20% at its output price.
calculate_cost(model, tokens) ==
    LET input_tokens == (tokens * 8) \div 10
        output_tokens == (tokens * 2) \div 10
    IN IF model = "gpt-4.1"
       THEN input_tokens * 15 + output_tokens * 60
       ELSE (input_tokens * 3 + output_tokens * 12) \div 10

\* Texts the evaluation LLM can answer with (written without the quotes of
\* JSON): the judgement record, sufficient or not; prose; a record without
\* "sufficient"; a record without "reasoning"; JSON that is not a record.
EvalTexts == {"{sufficient: true, reasoning: r}",
              "{sufficient: false, reasoning: r}",
              "More context is needed.",
              "{reasoning: r}",
              "{sufficient: true}",
              "[]"}

\* Texts the compression LLM can answer with: the answer record, with and
\* without insights; prose; a record without "answer"; JSON that is not a
\* record.
CompressTexts == {"{answer: A, insights: [i]}",
                  "{answer: A}",
                  "The code does this.",
                  "{insights: [i]}",
                  "[]"}

\* json.loads on those texts: the value, or JSONDecodeError.
json_loads(text) ==
    CASE text = "{sufficient: true, reasoning: r}" ->
            [kind |-> "object", value |-> [sufficient |-> TRUE, reasoning |-> "r"]]
      [] text = "{sufficient: false, reasoning: r}" ->
            [kind |-> "object", value |-> [sufficient |-> FALSE, reasoning |-> "r"]]
      [] text = "{reasoning: r}" ->
            [kind |-> "object", value |-> [reasoning |-> "r"]]
      [] text = "{sufficient: true}" ->
            [kind |-> "object", value |-> [sufficient |-> TRUE]]
      [] text = "{answer: A, insights: [i]}" ->
            [kind |-> "object", value |-> [answer |-> "A", insights |-> <<"i">>]]
      [] text = "{answer: A}" ->
            [kind |-> "object", value |-> [answer |-> "A"]]
      [] text = "{insights: [i]}" ->
            [kind |-> "object", value |-> [insights |-> <<"i">>]]
      [] text = "[]" ->
            [kind |-> "array", value |-> << >>]
      [] OTHER ->
            [kind |-> "JSONDecodeError", value |-> << >>]

\* d["tokens"] = tokens; d["cost"] = cost
with_usage(d, tokens, cost) ==
    [k \in DOMAIN d \cup {"tokens", "cost"} |->
        IF k = "tokens" THEN tokens ELSE IF k = "cost" THEN cost ELSE d[k]]

\* d.get(key, default)
dict_get(d, key, default) == IF key \in DOMAIN d THEN d[key] ELSE default

NoResponse == [content |-> None, tokens_used |-> 0, cost_usd |-> 0,
               key_insights |-> << >>]

NewWfHist == [turn_start_tokens |-> 0, turn_start_cost |-> 0,
              turn_llm_tokens |-> 0, turn_llm_cost |-> 0,
              eval_text |-> None, eval_texts |-> << >>,
              search_result |-> << >>,
              compress_text |-> None,
              compressor_llm_calls |-> 0, response |-> NoResponse,
              raised |-> None]

WfInit ==
    /\ wpc = "retrieve"
    /\ max_iterations \in 0..MaxIterationsBound
    /\ current_iteration = 0
    /\ search_history = << >>
    /\ retrieved_chunks = << >>
    /\ total_tokens = 0
    /\ total_cost = 0
    /\ sufficient_context = FALSE
    /\ final_answer = None
    /\ search_query = None
    /\ log = << >>
    /\ turns = << >>
    /\ wf_hist = NewWfHist

\* Variants of should_continue_retrieval with a slip in one stop condition.
should_continue_retrieval_off_by_one(suff, cur, maxit, tokens) ==
    IF suff THEN <<"compress", "sufficient_context">>
    ELSE IF cur > maxit THEN <<"compress", "max_iterations">>
    ELSE IF tokens > max_tokens_retrieval THEN <<"compress", "token_limit">>
    ELSE <<"retrieve", None>>

should_continue_retrieval_no_token_limit(suff, cur, maxit, tokens) ==
    IF suff THEN <<"compress", "sufficient_context">>
    ELSE IF cur >= maxit THEN <<"compress", "max_iterations">>
    ELSE <<"retrieve", None>>

\* Variant: the token budget is looked at first.
should_continue_retrieval_tokens_first(suff, cur, maxit, tokens) ==
    IF tokens > max_tokens_retrieval THEN <<"compress", "token_limit">>
    ELSE IF suff THEN <<"compress", "sufficient_context">>
    ELSE IF cur >= maxit THEN <<"compress", "max_iterations">>
    ELSE <<"retrieve", None>>

\* should_continue_retrieval: the decision and the reason it logs.
should_continue_retrieval(suff, cur, maxit, tokens) ==
    IF suff THEN <<"compress", "sufficient_context">>
    ELSE IF cur >= maxit THEN <<"compress", "max_iterations">>
    ELSE IF tokens > max_tokens_retrieval THEN <<"compress", "token_limit">>
    ELSE <<"retrieve", None>>

\* Variant: the edge out of "compress" leads back to "retrieve".
compress_edge_loops == "retrieve"

\* workflow.add_edge("compress", END)
compress_edge == "done"

\* retrieve_node is entered: AgentState(**state), retriever.run starts.
RetrieveNodeStart ==
    /\ wpc = "retrieve"
    /\ wpc' = "generate_query"
    /\ turns' = Append(turns, "retriever_start")
    /\ wf_hist' = [wf_hist EXCEPT !.turn_start_tokens = total_tokens,
                                  !.turn_start_cost = total_cost,
                                  !.turn_llm_tokens = 0,
                                  !.turn_llm_cost = 0,
                                  !.eval_text = None]
    /\ UNCHANGED <<max_iterations, current_iteration, search_history,
                   retrieved_chunks, total_tokens, total_cost,
                   sufficient_context, final_answer, search_query, log>>
    /\ UNCHANGED <<cacheVars, indexVars, chunkVars, embedVars, compVars, workerVars>>

\* _generate_search_query: one LLM call; its tokens are added to the state.
GenerateSearchQuery ==
    /\ wpc = "generate_query"
    /\ \E ok \in BOOLEAN, tokens \in TokenCosts :
          IF ok
          THEN /\ total_tokens' = total_tokens + tokens
               /\ total_cost' = total_cost + calculate_cost(retrieval_model, tokens)
               /\ search_query' = "q"
               /\ wpc' = "search"
               /\ wf_hist' = [wf_hist EXCEPT
                                !.turn_llm_tokens = @ + tokens,
                                !.turn_llm_cost =
                                    @ + calculate_cost(retrieval_model, tokens)]
          ELSE /\ wpc' = "failed"
               /\ wf_hist' = [wf_hist EXCEPT !.raised = "llm_call"]
               /\ UNCHANGED <<total_tokens, total_cost, search_query>>
    /\ UNCHANGED <<max_iterations, current_iteration, search_history,
                   retrieved_chunks, sufficient_context, final_answer, log, turns>>
    /\ UNCHANGED <<cacheVars, indexVars, chunkVars, embedVars, compVars, workerVars>>

\* Variant: the search result is appended as it came.
merge_chunks_no_dedup(existing, chunks) == existing \o chunks

\* Variant: the chunks of the latest search go in front.
merge_chunks_newest_first(existing, chunks) ==
    FilterSeq(chunks, ChunkIds \ Range(existing)) \o existing

\* The merge of one search result into retrieved_chunks (dedup by id).
merge_chunks(existing, chunks) ==
    existing \o FilterSeq(chunks, ChunkIds \ Range(existing))

\* Variant: the entry counts turns from one.
history_entry_one_based(cur, query, chunks) ==
    [iteration |-> cur + 1, query |-> query, chunks_found |-> Len(chunks)]

\* The entry RetrieverAgent.run appends to state.search_history.
history_entry(cur, query, chunks) ==
    [iteration |-> cur, query |-> query, chunks_found |-> Len(chunks)]

\* _search_chunks, then the history entry and the merge, up to the
\* evaluation call.
SearchChunks ==
    /\ wpc = "search"
    /\ \E ok \in BOOLEAN, chunks \in SearchResults :
          IF ok
          THEN /\ search_history' = Append(search_history,
                      history_entry(current_iteration, search_query, chunks))
               /\ retrieved_chunks' = merge_chunks(retrieved_chunks, chunks)
               /\ wpc' = "evaluate"
               /\ wf_hist' = [wf_hist EXCEPT !.search_result = chunks]
          ELSE /\ wpc' = "failed"
               /\ wf_hist' = [wf_hist EXCEPT !.raised = "search"]
               /\ UNCHANGED <<search_history, retrieved_chunks>>
    /\ UNCHANGED <<max_iterations, current_iteration, total_tokens, total_cost,
                   sufficient_context, final_answer, search_query, log, turns>>
    /\ UNCHANGED <<cacheVars, indexVars, chunkVars, embedVars, compVars, workerVars>>

\* Variant: the fallback judges one turn early.
fallback_sufficient_early(cur) == cur >= 1

\* The judgement _self_evaluate returns when json.loads rejects the text.
fallback_sufficient(cur) == cur >= 2

\* Variant: the turn does not count itself.
next_iteration_stuck(cur) == cur

\* state.current_iteration += 1
next_iteration(cur) == cur + 1

\* _self_evaluate once the LLM has answered with text: whether it raises,
\* whether the call's tokens and cost were added to the state, and the
\* evaluation it returns.
self_evaluate(text, tokens, cost, cur) ==
    LET parsed == json_loads(text) IN
    IF parsed.kind = "JSONDecodeError"
    THEN [raises |-> FALSE, usage_added |-> FALSE,
          evaluation |-> [sufficient |-> fallback_sufficient(cur),
                          reasoning |-> "Failed to parse evaluation",
                          missing_aspects |-> << >>, confidence |-> 5,
                          tokens |-> tokens, cost |-> cost]]
    ELSE IF parsed.kind # "object"
    THEN [raises |-> TRUE, usage_added |-> FALSE, evaluation |-> << >>]
    ELSE [raises |-> FALSE, usage_added |-> TRUE,
          evaluation |-> with_usage(parsed.value, tokens, cost)]

\* _self_evaluate and the rest of RetrieverAgent.run; retrieve_node returns.
\* run reads evaluation["sufficient"] before and evaluation["reasoning"]
\* after it updates the state.
SelfEvaluate ==
    /\ wpc = "evaluate"
    /\ \E ok \in BOOLEAN, tokens \in TokenCosts, text \in EvalTexts :
          IF ~ok
          THEN /\ wpc' = "failed"
               /\ wf_hist' = [wf_hist EXCEPT !.raised = "llm_call"]
               /\ UNCHANGED <<total_tokens, total_cost, sufficient_context,
                              current_iteration, search_query, turns>>
          ELSE LET cost == calculate_cost(retrieval_model, tokens)
                   ev == self_evaluate(text, tokens, cost, current_iteration)
                   h == [wf_hist EXCEPT !.turn_llm_tokens = @ + tokens,
                                        !.turn_llm_cost = @ + cost,
                                        !.eval_text = text,
                                        !.eval_texts = Append(@, text)]
               IN /\ total_tokens' = IF ev.usage_added THEN total_tokens + tokens
                                     ELSE total_tokens
                  /\ total_cost' = IF ev.usage_added THEN total_cost + cost
                                   ELSE total_cost
                  /\ IF ev.raises \/ "sufficient" \notin DOMAIN ev.evaluation
                     THEN /\ wpc' = "failed"
                          /\ wf_hist' = [h EXCEPT !.raised = "evaluation"]
                          /\ UNCHANGED <<sufficient_context, current_iteration,
                                         search_query, turns>>
                     ELSE /\ sufficient_context' = ev.evaluation.sufficient
                          /\ current_iteration' = next_iteration(current_iteration)
                          /\ search_query' = None
                          /\ IF "reasoning" \in DOMAIN ev.evaluation
                             THEN /\ wpc' = "route"
                                  /\ turns' = Append(turns, "retriever_end")
                                  /\ wf_hist' = h
                             ELSE /\ wpc' = "failed"
                                  /\ wf_hist' = [h EXCEPT !.raised = "evaluation"]
                                  /\ UNCHANGED turns
    /\ UNCHANGED <<max_iterations, search_history, retrieved_chunks,
                   final_answer, log>>
    /\ UNCHANGED <<cacheVars, indexVars, chunkVars, embedVars, compVars, workerVars>>

\* The conditional edge out of "retrieve".
Route ==
    /\ wpc = "route"
    /\ LET d == should_continue_retrieval(sufficient_context, current_iteration,
                                          max_iterations, total_tokens)
       IN /\ wpc' = d[1]
          /\ log' = IF d[2] = None THEN log ELSE Append(log, d[2])
    /\ UNCHANGED <<max_iterations, current_iteration, search_history,
                   retrieved_chunks, total_tokens, total_cost,
                   sufficient_context, final_answer, search_query, turns,
                   wf_hist>>
    /\ UNCHANGED <<cacheVars, indexVars, chunkVars, embedVars, compVars, workerVars>>

\* Variant: the Compressor asks the LLM whatever was retrieved.
nothing_retrieved_ignored(chs) == FALSE

\* if not state.retrieved_chunks
nothing_retrieved(chs) == chs = << >>

NothingRetrievedAnswer == "No code chunks were retrieved to analyze."

\* compress_node is entered; CompressorAgent.run with no chunk returns the
\* fixed answer at once (state.final_answer is not assigned on that path).
CompressNodeStart ==
    /\ wpc = "compress"
    /\ IF nothing_retrieved(retrieved_chunks)
       THEN /\ wpc' = compress_edge
            /\ turns' = turns \o <<"compressor_start", "compressor_end">>
            /\ wf_hist' = [wf_hist EXCEPT
                             !.response = [content |-> NothingRetrievedAnswer,
                                           tokens_used |-> 0, cost_usd |-> 0,
                                           key_insights |-> << >>]]
       ELSE /\ wpc' = "compressing"
            /\ turns' = Append(turns, "compressor_start")
            /\ UNCHANGED wf_hist
    /\ UNCHANGED <<max_iterations, current_iteration, search_history,
                   retrieved_chunks, total_tokens, total_cost,
                   sufficient_context, final_answer, search_query, log>>
    /\ UNCHANGED <<cacheVars, indexVars, chunkVars, embedVars, compVars, workerVars>>

\* _compress_chunks once the LLM has answered with text: whether it raises
\* (only JSONDecodeError is caught; compressed["answer"] is read in the try
\* block), and the record it returns.
compress_chunks(text, tokens, cost) ==
    LET parsed == json_loads(text) IN
    IF parsed.kind = "JSONDecodeError"
    THEN [raises |-> FALSE,
          compressed |-> [answer |-> text, insights |-> << >>,
                          needs_clarification |-> FALSE,
                          tokens |-> tokens, cost |-> cost]]
    ELSE IF parsed.kind # "object" \/ "answer" \notin DOMAIN parsed.value
    THEN [raises |-> TRUE, compressed |-> << >>]
    ELSE [raises |-> FALSE, compressed |-> with_usage(parsed.value, tokens, cost)]

\* _compress_chunks: the LLM call returns; compress_node returns.
CompressChunks ==
    /\ wpc = "compressing"
    /\ \E ok \in BOOLEAN, tokens \in TokenCosts, text \in CompressTexts :
          LET c == compress_chunks(text, tokens,
                                   calculate_cost(compression_model, tokens))
              h == [wf_hist EXCEPT !.compressor_llm_calls = @ + 1]
          IN IF ~ok
             THEN /\ wpc' = "failed"
                  /\ wf_hist' = [h EXCEPT !.raised = "llm_call"]
                  /\ UNCHANGED <<final_answer, turns>>
             ELSE IF c.raises
             THEN /\ wpc' = "failed"
                  /\ wf_hist' = [h EXCEPT !.compress_text = text,
                                          !.raised = "compression"]
                  /\ UNCHANGED <<final_answer, turns>>
             ELSE /\ final_answer' = c.compressed.answer
                  /\ wf_hist' = [h EXCEPT
                        !.compress_text = text,
                        !.response =
                           [content |-> c.compressed.answer,
                            tokens_used |-> dict_get(c.compressed, "tokens", 0),
                            cost_usd |-> dict_get(c.compressed, "cost", 0),
                            key_insights |-> dict_get(c.compressed, "insights", << >>)]]
                  /\ turns' = Append(turns, "compressor_end")
                  /\ wpc' = compress_edge
    /\ UNCHANGED <<max_iterations, current_iteration, search_history,
                   retrieved_chunks, total_tokens, total_cost,
                   sufficient_context, search_query, log>>
    /\ UNCHANGED <<cacheVars, indexVars, chunkVars, embedVars, compVars, workerVars>>

WfNext ==
    \/ RetrieveNodeStart
    \/ GenerateSearchQuery
    \/ SearchChunks
    \/ SelfEvaluate
    \/ Route
    \/ CompressNodeStart
    \/ CompressChunks


(***************************************************************************)
(*                            EMBEDDING CACHE                              *)
(***************************************************************************)

\* EmbeddingCache.max_size (a constructor argument; the model's caches are small).
max_size == 2

\* Chunk texts (cache keys) and the results distinct embedding calls may return.
Texts == {"a", "b", "c"}
Results == {"r1", "r2"}

\* get and put calls made on the cache in SpecCache.
MaxCacheOps == 6

cache_keys(c) == [i \in 1..Len(c) |-> c[i][1]]

\* text in self.cache
cache_has(c, t) == \E i \in 1..Len(c) : c[i][1] = t

\* self.cache[text], None when absent: what get returns.
cache_get(c, t) ==
    IF cache_has(c, t)
    THEN (CHOOSE e \in Range(c) : e[1] = t)[2]
    ELSE None

\* Variant: the newest key is deleted instead of the oldest.
cache_evict_newest(c) ==
    IF Len(c) >= max_size THEN SubSeq(c, 1, Len(c) - 1) ELSE c

\* Variant: the oldest key goes only once the dict is over its size.
cache_evict_when_over(c) == IF Len(c) > max_size THEN Tail(c) ELSE c

\* put, first statement: when the dict is full, delete its first key.
cache_evict(c) == IF Len(c) >= max_size THEN Tail(c) ELSE c

\* Variant: an existing key keeps its old value (setdefault).
cache_store_keeps_old(c, t, r) ==
    IF cache_has(c, t) THEN c ELSE Append(c, <<t, r>>)

\* put, second statement: self.cache[text] = result. An existing key keeps
\* its place in the dict order, a new key goes last.
cache_store(c, t, r) ==
    IF cache_has(c, t)
    THEN [i \in 1..Len(c) |-> IF c[i][1] = t THEN <<t, r>> ELSE c[i]]
    ELSE Append(c, <<t, r>>)

cache_put(c, t, r) == cache_store(cache_evict(c), t, r)

NoCall == [op |-> "none", text |-> None, result |-> None, evicted |-> {}]

CacheInit ==
    /\ cache = << >>
    /\ hits = 0
    /\ misses = 0
    /\ cache_hist = [stamp |-> [t \in Texts |-> 0],
                     clock |-> 0,
                     gets |-> 0,
                     last_put |-> [t \in Texts |-> None],
                     last |-> NoCall]

CacheCalls == hits + misses + cache_hist.clock

\* EmbeddingCache.get(text)
Get(t) ==
    /\ CacheCalls < MaxCacheOps
    /\ IF cache_has(cache, t)
       THEN /\ hits' = hits + 1
            /\ UNCHANGED misses
       ELSE /\ misses' = misses + 1
            /\ UNCHANGED hits
    /\ cache_hist' = [cache_hist EXCEPT
            !.gets = @ + 1,
            !.last = [op |-> "get", text |-> t,
                      result |-> cache_get(cache, t), evicted |-> {}]]
    /\ UNCHANGED cache
    /\ UNCHANGED <<wfVars, indexVars, chunkVars, embedVars, compVars, workerVars>>

\* EmbeddingCache.put(text, result). The history records which texts the
\* call removed, stamps a text when it enters the dict, and remembers the
\* value last put for each text still held.
Put(t, r) ==
    /\ CacheCalls < MaxCacheOps
    /\ LET kept == cache_evict(cache)
           evicted == Range(cache_keys(cache)) \ Range(cache_keys(kept))
           now == cache_hist.clock + 1
       IN /\ cache' = cache_store(kept, t, r)
          /\ cache_hist' =
                [stamp |-> [x \in Texts |->
                               IF x = t
                               THEN (IF cache_has(kept, t)
                                     THEN cache_hist.stamp[t] ELSE now)
                               ELSE IF x \in evicted THEN 0
                               ELSE cache_hist.stamp[x]],
                 clock |-> now,
                 gets |-> cache_hist.gets,
                 last_put |-> [x \in Texts |->
                               IF x = t THEN r
                               ELSE IF x \in evicted THEN None
                               ELSE cache_hist.last_put[x]],
                 last |-> [op |-> "put", text |-> t, result |-> r,
                           evicted |-> evicted]]
    /\ UNCHANGED <<hits, misses>>
    /\ UNCHANGED <<wfVars, indexVars, chunkVars, embedVars, compVars, workerVars>>

CacheNext ==
    \/ \E t \in Texts : Get(t)
    \/ \E t \in Texts, r \in Results : Put(t, r)


(***************************************************************************)
(*                  INDEXER: index_repository, twice                       *)
(***************************************************************************)

\* Files the walker yields, and the width of the semaphore
\* (index_repository's max_concurrent argument).
NumFiles == 3
max_concurrent == 2

\* collection.get(where=..., limit=10000) in delete_repo
DeleteLimit == 10000

Files == 1..NumFiles

\* What a file is, for _process_file: open() raises; the content is blank;
\* or the contents of the chunks chunk_text cuts it into, in chunk_index
\* order. Unchanged between the two runs.
FileKinds == {<<"unreadable">>, <<"empty">>,
              <<"text", <<"a">> >>, <<"text", <<"a", "b">> >>,
              <<"text", <<"b", "a">> >>, <<"text", <<"a", "a">> >>}

KindRank(k) ==
    CASE k = <<"unreadable">> -> 0
      [] k = <<"empty">> -> 1
      [] k = <<"text", <<"a">> >> -> 2
      [] k = <<"text", <<"a", "b">> >> -> 3
      [] k = <<"text", <<"b", "a">> >> -> 4
      [] k = <<"text", <<"a", "a">> >> -> 5

\* Entries the repo holds in the collection before the first run that no
\* run over the present content writes again (left by runs over earlier
\* content). They are counted, not named.
StaleChoices == {0, 2, DeleteLimit + 1}

\* hashlib.sha256(content.encode()).hexdigest()[:16]
content_hash(t) ==
    CASE t = "a" -> "ca978112ca1bbdca"
      [] t = "b" -> "3e23e8160039594a"
      [] t = "c" -> "2e7d2c03a9507ae2"

\* VectorStore.generate_chunk_id, for the one repo of the model
generate_chunk_id(file, chunk_index, content) ==
    <<"repo", file, chunk_index, content_hash(content)>>

\* The EmbeddingResult the embedding service returns for a text.
embedding_of(t) == <<"vec", t>>

NewTask == [pc |-> "pending", cached |-> << >>, to_embed |-> << >>,
            batch |-> << >>, outcome |-> None]

\* What the run has seen so far: files whose task raised, ids written, the
\* collection and outcome of the first run, manifests written, what made
\* index() raise, texts sent to the embedding service and not evicted from
\* the cache since (asked), and texts sent to it again while in asked.
NewHist == [raised |-> {}, written |-> {}, after_first |-> None,
            first_clean |-> FALSE, manifests |-> 0, cause |-> None,
            asked |-> {}, asked_again |-> {}]

NewStats == [files_processed |-> 0, files_skipped |-> 0, chunks_created |-> 0,
             embeddings_created |-> 0, embeddings_cached |-> 0,
             errors |-> << >>]

IndexInit ==
    /\ ipc = "start"
    /\ semaphore = max_concurrent
    /\ run = 1
    /\ files \in [Files -> FileKinds]
    /\ \A f \in Files : f + 1 \in Files => KindRank(files[f]) <= KindRank(files[f + 1])
    /\ task = [f \in Files |-> NewTask]
    /\ stats = NewStats
    /\ \E n \in StaleChoices : collection = [ids |-> {}, stale |-> n]
    /\ index_hist = NewHist

\* delete_repo: what can be left of the repo's entries when the ids of at
\* most DeleteLimit of them are fetched and deleted.
delete_repo(col) ==
    LET total == Cardinality(col.ids) + col.stale
        n == MinOf(total, DeleteLimit)
    IN {[ids |-> col.ids \ d, stale |-> col.stale - (n - Cardinality(d))] :
          d \in {d \in SUBSET col.ids :
                    /\ n - Cardinality(d) >= 0
                    /\ n - Cardinality(d) <= col.stale}}

\* index_repository up to the gather: delete_repo, the walk, the semaphore.
DeleteRepo ==
    /\ ipc = "start"
    /\ \E ok \in BOOLEAN :
          IF ok
          THEN /\ collection' \in delete_repo(collection)
               /\ ipc' = "processing"
               /\ UNCHANGED index_hist
          ELSE /\ ipc' = "raised"
               /\ index_hist' = [index_hist EXCEPT !.cause = "delete_repo"]
               /\ UNCHANGED collection
    /\ UNCHANGED <<semaphore, run, files, task, stats, cache, hits, misses>>
    /\ UNCHANGED <<wfVars, cache_hist, chunkVars, embedVars, compVars, workerVars>>

\* The chunks of a file as <<chunk_index, content>> pairs.
chunks_of(kind) ==
    IF kind[1] = "text"
    THEN [i \in 1..Len(kind[2]) |-> <<i - 1, kind[2][i]>>]
    ELSE << >>

\* The lookup loop of _process_file: chunks found in the cache, with the
\* cached result, and chunks still to embed, each in chunk order.
RECURSIVE lookup_cached(_, _)
lookup_cached(c, chunks) ==
    IF chunks = << >> THEN << >>
    ELSE IF cache_has(c, Head(chunks)[2])
         THEN <<<<Head(chunks)[1], Head(chunks)[2], cache_get(c, Head(chunks)[2])>>>>
              \o lookup_cached(c, Tail(chunks))
         ELSE lookup_cached(c, Tail(chunks))

RECURSIVE lookup_missing(_, _)
lookup_missing(c, chunks) ==
    IF chunks = << >> THEN << >>
    ELSE IF cache_has(c, Head(chunks)[2])
         THEN lookup_missing(c, Tail(chunks))
         ELSE <<Head(chunks)>> \o lookup_missing(c, Tail(chunks))

\* zip(texts_to_embed, embedding_results) with the cache written per pair.
RECURSIVE put_all(_, _)
put_all(c, chunks) ==
    IF chunks = << >> THEN c
    ELSE put_all(cache_put(c, Head(chunks)[2], embedding_of(Head(chunks)[2])),
                 Tail(chunks))

\* The cache keys the puts of put_all remove.
RECURSIVE put_all_evicted(_, _)
put_all_evicted(c, chunks) ==
    IF chunks = << >> THEN {}
    ELSE (Range(cache_keys(c)) \ Range(cache_keys(cache_evict(c))))
         \cup put_all_evicted(cache_put(c, Head(chunks)[2],
                                        embedding_of(Head(chunks)[2])),
                              Tail(chunks))

\* chunk_texts, the argument of embed_texts, and the texts that occur in it
\* more than once.
chunk_texts(chunks) == [i \in 1..Len(chunks) |-> chunks[i][2]]

repeated_texts(texts) == {t \in Range(texts) : Count(texts, t) > 1}

embedded(chunks) ==
    [i \in 1..Len(chunks) |->
        <<chunks[i][1], chunks[i][2], embedding_of(chunks[i][2])>>]

\* Variant: the merged list is upserted as it was concatenated.
sort_by_chunk_index_skipped(s) == s

\* list.sort(key=chunk_index): a stable insertion sort on the first field.
RECURSIVE insert_sorted(_, _)
insert_sorted(sorted, x) ==
    IF sorted = << >> THEN <<x>>
    ELSE IF x[1] < Head(sorted)[1] THEN <<x>> \o sorted
         ELSE <<Head(sorted)>> \o insert_sorted(Tail(sorted), x)

RECURSIVE sort_by_chunk_index(_)
sort_by_chunk_index(s) ==
    IF s = << >> THEN << >>
    ELSE insert_sorted(sort_by_chunk_index(SubSeq(s, 1, Len(s) - 1)), s[Len(s)])

batch_ids(f, batch) == {generate_chunk_id(f, batch[i][1], batch[i][2]) : i \in 1..Len(batch)}

\* Variant: no semaphore.
semaphore_never_blocks(value) == TRUE

\* async with semaphore: a task enters when a slot is free.
semaphore_can_acquire(value) == value > 0

\* The three ways _process_file accounts for a file in self.stats.
record_skipped(st) == [st EXCEPT !.files_skipped = @ + 1]

\* Variant: the except branch logs the error and does not record it.
record_error_dropped(st, f) == st

record_error(st, f) == [st EXCEPT !.errors = Append(@, f)]

record_processed(st, n) ==
    [st EXCEPT !.files_processed = @ + 1, !.chunks_created = @ + n]

Finished(batch, outcome) ==
    [pc |-> "finished", cached |-> << >>, to_embed |-> << >>,
     batch |-> batch, outcome |-> outcome]

\* Variant: the failure of one file also ends the files still waiting.
FileRaisedCancelsPending(f, st, h) ==
    /\ stats' = record_error(st, f)
    /\ task' = [g \in Files |->
                 IF g = f \/ task[g].pc = "pending"
                 THEN Finished(<< >>, "error") ELSE task[g]]
    /\ index_hist' = [h EXCEPT !.raised = @ \cup {f}]

\* The except branch of _process_file for file f.
FileRaised(f, st, h) ==
    /\ stats' = record_error(st, f)
    /\ task' = [task EXCEPT ![f] = Finished(<< >>, "error")]
    /\ index_hist' = [h EXCEPT !.raised = @ \cup {f}]

\* vector_store.upsert_chunks for the file's batch and the rest of
\* _process_file; ok is whether the collection accepts the write.
UpsertChunks(f, batch, st, h, ok) ==
    IF ok
    THEN /\ collection' = [collection EXCEPT !.ids = @ \cup batch_ids(f, batch)]
         /\ stats' = record_processed(st, Len(batch))
         /\ task' = [task EXCEPT ![f] = Finished(batch, "processed")]
         /\ index_hist' = [h EXCEPT !.written = @ \cup batch_ids(f, batch)]
    ELSE /\ FileRaised(f, st, h)
         /\ UNCHANGED collection

\* A file task takes a slot and runs _process_file up to its first
\* suspension (the embedding call), or to its end when nothing suspends it.
ProcessFile(f) ==
    /\ ipc = "processing"
    /\ task[f].pc = "pending"
    /\ semaphore_can_acquire(semaphore)
    /\ LET kind == files[f]
           chunks == chunks_of(kind)
           cached == lookup_cached(cache, chunks)
           missing == lookup_missing(cache, chunks)
           st == [stats EXCEPT !.embeddings_cached = @ + Len(cached)]
       IN IF kind[1] = "unreadable"
          THEN /\ FileRaised(f, stats, index_hist)
               /\ UNCHANGED <<semaphore, collection, hits, misses>>
          ELSE IF kind[1] = "empty" \/ chunks = << >>
          THEN /\ stats' = record_skipped(stats)
               /\ task' = [task EXCEPT ![f] = Finished(<< >>, "skipped")]
               /\ UNCHANGED <<semaphore, collection, hits, misses, index_hist>>
          ELSE /\ hits' = hits + Len(cached)
               /\ misses' = misses + Len(missing)
               /\ IF missing = << >>
                  THEN /\ \E ok \in BOOLEAN :
                             UpsertChunks(f, sort_by_chunk_index(cached), st,
                                          index_hist, ok)
                       /\ UNCHANGED semaphore
                  ELSE /\ task' = [task EXCEPT ![f] =
                                     [pc |-> "embedding", cached |-> cached,
                                      to_embed |-> missing, batch |-> << >>,
                                      outcome |-> None]]
                       /\ semaphore' = semaphore - 1
                       /\ stats' = st
                       /\ index_hist' =
                            [index_hist EXCEPT
                               !.asked = @ \cup Range(chunk_texts(missing)),
                               !.asked_again = @ \cup
                                  (index_hist.asked \cap Range(chunk_texts(missing)))
                                  \cup repeated_texts(chunk_texts(missing))]
                       /\ UNCHANGED collection
    /\ UNCHANGED <<ipc, run, files, cache>>
    /\ UNCHANGED <<wfVars, cache_hist, chunkVars, embedVars, compVars, workerVars>>

\* embed_texts returns (or raises) and the task runs to its end: the cache
\* is written, the batch is merged, sorted and upserted, the slot released.
EmbedReturn(f) ==
    /\ ipc = "processing"
    /\ task[f].pc = "embedding"
    /\ semaphore' = semaphore + 1
    /\ \E embed_ok \in BOOLEAN, upsert_ok \in BOOLEAN :
          IF embed_ok
          THEN /\ cache' = put_all(cache, task[f].to_embed)
               /\ UpsertChunks(f,
                     sort_by_chunk_index(task[f].cached \o embedded(task[f].to_embed)),
                     [stats EXCEPT !.embeddings_created = @ + Len(task[f].to_embed)],
                     [index_hist EXCEPT
                        !.asked = @ \ put_all_evicted(cache, task[f].to_embed)],
                     upsert_ok)
          ELSE /\ FileRaised(f, stats, index_hist)
               /\ UNCHANGED <<cache, collection>>
    /\ UNCHANGED <<ipc, run, files, hits, misses>>
    /\ UNCHANGED <<wfVars, cache_hist, chunkVars, embedVars, compVars, workerVars>>

\* Variant: the wait ends with the first task that ends.
gather_returned_first(t) == \E f \in Files : t[f].pc = "finished"

\* results = await asyncio.gather(*tasks, return_exceptions=True) has
\* returned: every task has ended.
gather_returned(t) == \A f \in Files : t[f].pc = "finished"

\* After the gather: get_repo_stats, then the manifest is written.
WriteManifest ==
    /\ ipc = "processing"
    /\ gather_returned(task)
    /\ \E ok \in BOOLEAN :
          IF ok
          THEN /\ ipc' = "done"
               /\ index_hist' = [index_hist EXCEPT !.manifests = @ + 1]
          ELSE /\ ipc' = "raised"
               /\ index_hist' = [index_hist EXCEPT !.cause = "get_repo_stats"]
    /\ UNCHANGED <<semaphore, run, files, task, stats, collection,
                   cache, hits, misses>>
    /\ UNCHANGED <<wfVars, cache_hist, chunkVars, embedVars, compVars, workerVars>>

\* init_repo is called again on the same path and repo name: a new
\* RepoIndexer (new stats, new cache, new semaphore) over the same collection.
\* The model re-indexes after a first run in which no file raised.
StartSecondRun ==
    /\ ipc = "done"
    /\ run = 1
    /\ index_hist.raised = {}
    /\ run' = 2
    /\ ipc' = "start"
    /\ semaphore' = max_concurrent
    /\ task' = [f \in Files |-> NewTask]
    /\ stats' = NewStats
    /\ cache' = << >>
    /\ hits' = 0
    /\ misses' = 0
    /\ index_hist' = [NewHist EXCEPT !.after_first = collection,
                                     !.first_clean = (index_hist.raised = {})]
    /\ UNCHANGED <<files, collection>>
    /\ UNCHANGED <<wfVars, cache_hist, chunkVars, embedVars, compVars, workerVars>>

IndexNext ==
    \/ DeleteRepo
    \/ \E f \in Files : ProcessFile(f)
    \/ \E f \in Files : EmbedReturn(f)
    \/ WriteManifest
    \/ StartSecondRun

(***************************************************************************)
(*                  CHUNKER: TextChunker.chunk_text                        *)
(***************************************************************************)

\* The longest content given to chunk_text, in characters, and the
\* chunker's chunk_size and chunk_overlap, in tokens.
MaxContentLen == 5
chunk_size == 3
chunk_overlap == 2

\* A text is a sequence of characters: the line break, "d" (a line that
\* begins with it matches a boundary pattern of its language, as "def f"
\* does for python) and "x" (any other character).
NL == "\n"
Chars == {"d", "x", NL}
Contents == UNION {[1..n -> Chars] : n \in 0..MaxContentLen}

\* Languages FileInfo.language takes: one with boundary patterns, one
\* without, and none.
Languages == {"python", "markdown", None}
boundary_patterns == {"python"}

\* len(self.encoding.encode(text)), with a tokenizer of one token a character.
count_tokens(text) == Len(text)

\* str.split('\n')
RECURSIVE split_lines(_)
split_lines(text) ==
    IF \A i \in 1..Len(text) : text[i] # NL THEN <<text>>
    ELSE LET k == CHOOSE i \in 1..Len(text) :
                     text[i] = NL /\ \A j \in 1..(i - 1) : text[j] # NL
         IN <<SubSeq(text, 1, k - 1)>> \o split_lines(SubSeq(text, k + 1, Len(text)))

\* '\n'.join(ls)
RECURSIVE join_lines(_)
join_lines(ls) ==
    IF ls = << >> THEN << >>
    ELSE IF Len(ls) = 1 THEN ls[1]
    ELSE ls[1] \o <<NL>> \o join_lines(Tail(ls))

\* s[a:b] for a, b >= 0
py_slice(s, a, b) == SubSeq(s, a + 1, MinOf(b, Len(s)))

\* sorted(set(...)) of a set of integers
RECURSIVE sorted_set(_)
sorted_set(S) ==
    IF S = {} THEN << >>
    ELSE LET m == CHOOSE x \in S : \A y \in S : x <= y
         IN <<m>> \o sorted_set(S \ {m})

\* re.match(pattern, line.strip()) for some pattern of the language
matches_pattern(line) == line # << >> /\ line[1] = "d"

\* Variant: no language has boundary patterns.
find_boundaries_no_patterns(ls, lang) == <<0, Len(ls)>>

\* TextChunker._find_boundaries
find_boundaries(ls, lang) ==
    LET found == IF lang # None /\ lang \in boundary_patterns
                 THEN {i \in 0..(Len(ls) - 1) : matches_pattern(ls[i + 1])}
                 ELSE {}
    IN sorted_set({0} \cup found \cup {Len(ls)})

\* The loop of _split_by_tokens over the lines still to place.
RECURSIVE split_loop(_, _, _, _, _)
split_loop(ls, out, current_chunk, current_tokens, max_tokens) ==
    IF ls = << >>
    THEN IF current_chunk # << >> THEN Append(out, join_lines(current_chunk))
         ELSE out
    ELSE LET line == Head(ls)
             line_tokens == count_tokens(line \o <<NL>>)
         IN IF current_tokens + line_tokens > max_tokens /\ current_chunk # << >>
            THEN split_loop(Tail(ls), Append(out, join_lines(current_chunk)),
                            <<line>>, line_tokens, max_tokens)
            ELSE split_loop(Tail(ls), out, Append(current_chunk, line),
                            current_tokens + line_tokens, max_tokens)

\* Variant: a text over the budget is cut down to its first line.
split_by_tokens_first_line(text, max_tokens) ==
    IF count_tokens(text) <= max_tokens THEN <<text>>
    ELSE <<split_lines(text)[1]>>

\* TextChunker._split_by_tokens
split_by_tokens(text, max_tokens) ==
    IF count_tokens(text) <= max_tokens THEN <<text>>
    ELSE split_loop(split_lines(text), << >>, << >>, 0, max_tokens)

\* sum(len(line) + 1 for line in ls)
RECURSIVE chars_of(_)
chars_of(ls) ==
    IF ls = << >> THEN 0 ELSE Len(Head(ls)) + 1 + chars_of(Tail(ls))

\* Variant: the chunk counter is not advanced.
next_chunk_index_stuck(i) == i

\* chunk_index += 1
next_chunk_index(i) == i + 1

RECURSIVE advance_chunk_index(_, _)
advance_chunk_index(i, n) ==
    IF n = 0 THEN i ELSE advance_chunk_index(next_chunk_index(i), n - 1)

\* The Chunk appended for a section that fits chunk_size.
semantic_chunk(ls, start_idx, end_idx, index, lang) ==
    LET section_text == join_lines(py_slice(ls, start_idx, end_idx))
        chunk_start_char == chars_of(py_slice(ls, 0, start_idx))
    IN [content |-> section_text,
        start_line |-> start_idx + 1,
        end_line |-> end_idx,
        start_char |-> chunk_start_char,
        end_char |-> chunk_start_char + Len(section_text),
        chunk_index |-> index,
        total_chunks |-> 0,
        token_count |-> count_tokens(section_text),
        metadata |-> [language |-> lang, boundary_type |-> "semantic"]]

\* sum(len(_split_by_tokens('\n'.join(section_lines[:k]), chunk_size)[0]
\*         .split('\n')) for k in range(j))
RECURSIVE first_pieces_lines(_, _)
first_pieces_lines(section_lines, j) ==
    IF j = 0 THEN 0
    ELSE first_pieces_lines(section_lines, j - 1)
         + Len(split_lines(split_by_tokens(
                  join_lines(py_slice(section_lines, 0, j - 1)), chunk_size)[1]))

\* The Chunks appended for a section that exceeds chunk_size.
token_split_chunks(ls, start_idx, end_idx, index, lang) ==
    LET section_lines == py_slice(ls, start_idx, end_idx)
        sub_chunks == split_by_tokens(join_lines(section_lines), chunk_size)
    IN [n \in 1..Len(sub_chunks) |->
          LET j == n - 1
              sub_chunk == sub_chunks[n]
              sub_lines == split_lines(sub_chunk)
              chunk_start_line == start_idx + first_pieces_lines(section_lines, j) + 1
              chunk_end_line == chunk_start_line + Len(sub_lines) - 1
              chunk_start_char == chars_of(py_slice(ls, 0, chunk_start_line - 1))
          IN [content |-> sub_chunk,
              start_line |-> chunk_start_line,
              end_line |-> chunk_end_line,
              start_char |-> chunk_start_char,
              end_char |-> chunk_start_char + Len(sub_chunk),
              chunk_index |-> advance_chunk_index(index, j),
              total_chunks |-> 0,
              token_count |-> count_tokens(sub_chunk),
              metadata |-> [language |-> lang, boundary_type |-> "token_split"]]]

\* Variant: the overlap text is absorbed whatever its size.
within_overlap_always(tokens) == TRUE

\* if self.count_tokens(overlap_text) <= self.chunk_overlap
within_overlap(tokens) == tokens <= chunk_overlap

\* Variant: the overlap pass leaves token_count as it was.
recount_tokens_stale(chunk, new_content) == chunk.token_count

\* chunk.token_count = self.count_tokens(chunk.content), after the overlap
\* pass has given the chunk its new content
recount_tokens(chunk, new_content) == count_tokens(new_content)

\* What _add_overlap makes of chunks[i] (i from 0), given the list as the
\* earlier iterations left it.
overlapped(chs, ls, i) ==
    LET chunk == chs[i + 1] IN
    IF i = 0
    THEN IF i + 1 < Len(chs)
         THEN LET next_chunk == chs[i + 2]
                  overlap_lines == py_slice(ls, next_chunk.start_line - 1,
                                            next_chunk.start_line + 5)
                  overlap_text == join_lines(overlap_lines)
              IN IF within_overlap(count_tokens(overlap_text))
                 THEN [chunk EXCEPT
                         !.content = @ \o <<NL>> \o overlap_text,
                         !.end_line = MinOf(@ + Len(overlap_lines), Len(ls)),
                         !.token_count =
                             recount_tokens(chunk,
                                 chunk.content \o <<NL>> \o overlap_text)]
                 ELSE chunk
         ELSE chunk
    ELSE IF i = Len(chs) - 1
    THEN LET overlap_lines == py_slice(ls, MaxOf(0, chunk.start_line - 6),
                                       chunk.start_line - 1)
             overlap_text == join_lines(overlap_lines)
         IN IF within_overlap(count_tokens(overlap_text))
            THEN [chunk EXCEPT
                    !.content = overlap_text \o <<NL>> \o @,
                    !.start_line = MaxOf(1, @ - Len(overlap_lines)),
                    !.token_count =
                        recount_tokens(chunk,
                            overlap_text \o <<NL>> \o chunk.content)]
            ELSE chunk
    ELSE LET next_chunk == chs[i + 2]
             prev_overlap_lines == py_slice(ls, MaxOf(0, chunk.start_line - 4),
                                            chunk.start_line - 1)
             prev_overlap_text == join_lines(prev_overlap_lines)
             next_overlap_lines == py_slice(ls, next_chunk.start_line - 1,
                                            next_chunk.start_line + 3)
             next_overlap_text == join_lines(next_overlap_lines)
         IN IF within_overlap(count_tokens(prev_overlap_text)
                                 + count_tokens(next_overlap_text))
            THEN [chunk EXCEPT
                    !.content = prev_overlap_text \o <<NL>> \o @ \o <<NL>>
                                   \o next_overlap_text,
                    !.start_line = MaxOf(1, @ - Len(prev_overlap_lines)),
                    !.end_line = MinOf(@ + Len(next_overlap_lines), Len(ls)),
                    !.token_count =
                        recount_tokens(chunk,
                            prev_overlap_text \o <<NL>> \o chunk.content
                               \o <<NL>> \o next_overlap_text)]
            ELSE chunk

\* The loop of _add_overlap from chunk i on; the chunks are changed in place.
RECURSIVE add_overlap_from(_, _, _)
add_overlap_from(chs, ls, i) ==
    IF i >= Len(chs) THEN chs
    ELSE add_overlap_from([chs EXCEPT ![i + 1] = overlapped(chs, ls, i)], ls, i + 1)

\* Variant: the pass also moves end_char to the end of the new content.
add_overlap_moving_end_char(chs, ls) ==
    LET out == add_overlap_from(chs, ls, 0)
    IN [i \in 1..Len(out) |->
          [out[i] EXCEPT !.end_char = out[i].start_char + Len(out[i].content)]]

\* TextChunker._add_overlap
add_overlap(chs, ls) == add_overlap_from(chs, ls, 0)

NewChunkHist == [before_overlap |-> << >>, overlap_passes |-> 0]

ChunkInit ==
    /\ cpc = "called"
    /\ ck_content \in Contents
    /\ language \in Languages
    /\ lines = << >>
    /\ boundaries = << >>
    /\ section = 0
    /\ ck_chunk_index = 0
    /\ ck_chunks = << >>
    /\ chunk_hist = NewChunkHist

\* chunk_text up to its loop: the lines and the boundaries.
FindBoundaries ==
    /\ cpc = "called"
    /\ lines' = split_lines(ck_content)
    /\ boundaries' = find_boundaries(lines', language)
    /\ cpc' = "sections"
    /\ UNCHANGED <<ck_content, language, section, ck_chunk_index, ck_chunks, chunk_hist>>
    /\ UNCHANGED <<wfVars, cacheVars, indexVars, embedVars, compVars, workerVars>>

\* Variant: a section exactly at the budget is not kept whole.
within_budget_exclusive(text) == count_tokens(text) < chunk_size

\* if self.count_tokens(section_text) <= self.chunk_size
within_budget(text) == count_tokens(text) <= chunk_size

SectionText == join_lines(py_slice(lines, boundaries[section + 1],
                                   boundaries[section + 2]))

\* One pass of the loop, for a section that fits the budget.
EmitSemanticChunk ==
    /\ cpc = "sections"
    /\ section < Len(boundaries) - 1
    /\ within_budget(SectionText)
    /\ ck_chunks' = Append(ck_chunks,
                        semantic_chunk(lines, boundaries[section + 1],
                                       boundaries[section + 2], ck_chunk_index,
                                       language))
    /\ ck_chunk_index' = next_chunk_index(ck_chunk_index)
    /\ section' = section + 1
    /\ UNCHANGED <<cpc, ck_content, language, lines, boundaries, chunk_hist>>
    /\ UNCHANGED <<wfVars, cacheVars, indexVars, embedVars, compVars, workerVars>>

\* One pass of the loop, for a section that exceeds the budget.
EmitTokenSplitChunks ==
    /\ cpc = "sections"
    /\ section < Len(boundaries) - 1
    /\ ~within_budget(SectionText)
    /\ LET new == token_split_chunks(lines, boundaries[section + 1],
                                     boundaries[section + 2], ck_chunk_index,
                                     language)
       IN /\ ck_chunks' = ck_chunks \o new
          /\ ck_chunk_index' = advance_chunk_index(ck_chunk_index, Len(new))
    /\ section' = section + 1
    /\ UNCHANGED <<cpc, ck_content, language, lines, boundaries, chunk_hist>>
    /\ UNCHANGED <<wfVars, cacheVars, indexVars, embedVars, compVars, workerVars>>

\* After the loop: total_chunks is set on every chunk; chunk_text returns
\* here unless the overlap pass is due.
UpdateTotalChunks ==
    /\ cpc = "sections"
    /\ section = Len(boundaries) - 1
    /\ ck_chunks' = [i \in 1..Len(ck_chunks) |->
                     [ck_chunks[i] EXCEPT !.total_chunks = Len(ck_chunks)]]
    /\ chunk_hist' = [chunk_hist EXCEPT !.before_overlap = ck_chunks']
    /\ cpc' = IF chunk_overlap > 0 /\ Len(ck_chunks) > 1 THEN "overlap" ELSE "returned"
    /\ UNCHANGED <<ck_content, language, lines, boundaries, section, ck_chunk_index>>
    /\ UNCHANGED <<wfVars, cacheVars, indexVars, embedVars, compVars, workerVars>>

\* The overlap pass, and the return of chunk_text.
AddOverlap ==
    /\ cpc = "overlap"
    /\ ck_chunks' = add_overlap(ck_chunks, lines)
    /\ chunk_hist' = [chunk_hist EXCEPT !.overlap_passes = @ + 1]
    /\ cpc' = "returned"
    /\ UNCHANGED <<ck_content, language, lines, boundaries, section, ck_chunk_index>>
    /\ UNCHANGED <<wfVars, cacheVars, indexVars, embedVars, compVars, workerVars>>

ChunkNext ==
    \/ FindBoundaries
    \/ EmitSemanticChunk
    \/ EmitTokenSplitChunks
    \/ UpdateTotalChunks
    \/ AddOverlap

(***************************************************************************)
(*              EMBEDDER: embed_texts with its retried batches             *)
(***************************************************************************)

\* Bounds: the longest list of texts, and settings.embedding_batch_size.
MaxTexts == 3
batch_size == 2

\* stop_after_attempt(3)
max_attempt_number == 3

EmbedInputs == UNION {[1..n -> {"a", "b"}] : n \in 1..MaxTexts}

\* What one call of client.embeddings.create can meet: a response, the two
\* failures the decorator names, and a failure of another type.
ServiceOutcomes == {"ok", "RateLimitError", "APITimeoutError",
                    "APIConnectionError"}

\* Variant: every exception type is retried.
retry_if_any_exception(failure) == TRUE

\* retry_if_exception_type((openai.RateLimitError, openai.APITimeoutError))
retry_if_exception_type(failure) ==
    failure \in {"RateLimitError", "APITimeoutError"}

\* stop_after_attempt(3), asked after a failed attempt
stop_after_attempt(attempt) == attempt >= max_attempt_number

\* What the retry decorator does when an attempt of _embed_batch has raised
\* failure: the exception goes through when its type is not retried, a
\* RetryError is raised when the attempts are used up, else the call is
\* made again after the wait.
after_failed_attempt(attempt, failure) ==
    IF ~retry_if_exception_type(failure)
    THEN [do |-> "raise", exc |-> failure]
    ELSE IF stop_after_attempt(attempt)
    THEN [do |-> "raise", exc |-> "RetryError"]
    ELSE [do |-> "retry", exc |-> None]

\* batch = texts[i:i + self.batch_size]
batch_at(texts, i) == py_slice(texts, i, i + batch_size)

\* The EmbeddingResults _embed_batch builds from a response.
batch_results(batch) == [k \in 1..Len(batch) |-> embedding_of(batch[k])]

EmbedInit ==
    /\ epc = "embed_texts"
    /\ em_texts \in EmbedInputs
    /\ em_i = 0
    /\ attempt_number = 0
    /\ em_results = << >>
    /\ em_raised = None
    /\ em_errors = << >>
    /\ em_hist = << >>

\* embed_texts at the head of its loop: the next batch is sent, or the
\* results are returned to _process_file.
NextBatch ==
    /\ epc = "embed_texts"
    /\ IF em_i < Len(em_texts)
       THEN /\ epc' = "embed_batch"
            /\ attempt_number' = 1
            /\ em_hist' = << >>
       ELSE /\ epc' = "process_file"
            /\ UNCHANGED <<attempt_number, em_hist>>
    /\ UNCHANGED <<em_texts, em_i, em_results, em_raised, em_errors>>
    /\ UNCHANGED <<wfVars, cacheVars, indexVars, chunkVars, compVars, workerVars>>

\* One attempt of _embed_batch ends: with the response, or with a failure
\* the decorator retries or lets through.
BatchAttempt ==
    /\ epc = "embed_batch"
    /\ \E outcome \in ServiceOutcomes :
          /\ em_hist' = Append(em_hist, outcome)
          /\ IF outcome = "ok"
             THEN /\ em_results' = em_results
                                      \o batch_results(batch_at(em_texts, em_i))
                  /\ em_i' = em_i + batch_size
                  /\ epc' = "embed_texts"
                  /\ UNCHANGED <<attempt_number, em_raised>>
             ELSE LET d == after_failed_attempt(attempt_number, outcome)
                  IN IF d.do = "retry"
                     THEN /\ attempt_number' = attempt_number + 1
                          /\ UNCHANGED <<epc, em_i, em_results, em_raised>>
                     ELSE /\ em_raised' = d.exc
                          /\ epc' = "process_file"
                          /\ UNCHANGED <<attempt_number, em_i, em_results>>
    /\ UNCHANGED <<em_texts, em_errors>>
    /\ UNCHANGED <<wfVars, cacheVars, indexVars, chunkVars, compVars, workerVars>>

\* _process_file after its await: it goes on with the results, or its
\* except branch records the error and it returns False.
ProcessFileResumes ==
    /\ epc = "process_file"
    /\ IF em_raised = None
       THEN /\ epc' = "embedded"
            /\ UNCHANGED em_errors
       ELSE /\ epc' = "returned_false"
            /\ em_errors' = Append(em_errors, [file |-> "f", error |-> em_raised])
    /\ UNCHANGED <<em_texts, em_i, attempt_number, em_results, em_raised,
                   em_hist>>
    /\ UNCHANGED <<wfVars, cacheVars, indexVars, chunkVars, compVars, workerVars>>

EmbedNext ==
    \/ NextBatch
    \/ BatchAttempt
    \/ ProcessFileResumes

(***************************************************************************)
(*             COMPRESSOR: the context block of one query                  *)
(***************************************************************************)

\* Largest number of retrieved chunks a Compressor call is given.
MaxRetrieved == 6

\* max_context_chars of _compress_chunks
max_context_chars == 40000

\* chunks[:5] of _compress_chunks
chunks_per_file == 5

\* len("\n\n[... context truncated ...]")
TruncationMarkerLen == 29

\* The chunks the index holds for the repository: six of a.py, the first
\* of them long, and a long one of b.py. A text is modelled by its length;
\* the positions of the parts in the context string are computed from the
\* lengths.
IndexedChunks ==
    {[id |-> <<"a.py", n>>, file_path |-> "a.py",
      start_line |-> 10 * (n - 1) + 1, end_line |-> 10 * n,
      content_len |-> IF n = 1 THEN 25000 ELSE 10] : n \in 1..6}
    \cup {[id |-> <<"b.py", 1>>, file_path |-> "b.py",
           start_line |-> 1, end_line |-> 10, content_len |-> 25000]}

\* The lists state.retrieved_chunks can be when run gets past its first
\* test: not empty, no id twice.
RetrievedInputs ==
    {s \in UNION {[1..n -> IndexedChunks] : n \in 1..MaxRetrieved} :
        \A i, j \in 1..Len(s) : i # j => s[i].id # s[j].id}

\* len(str(n)) for n >= 0
RECURSIVE digits(_)
digits(n) == IF n < 10 THEN 1 ELSE 1 + digits(n \div 10)

\* The keys of chunks_by_file in dict order: file paths as first met.
RECURSIVE file_paths(_)
file_paths(chs) ==
    IF chs = << >> THEN << >>
    ELSE LET front == file_paths(SubSeq(chs, 1, Len(chs) - 1))
             p == chs[Len(chs)].file_path
         IN IF p \in Range(front) THEN front ELSE Append(front, p)

\* The chunks of chs with file path p, in list order.
RECURSIVE chunks_of_file(_, _)
chunks_of_file(chs, p) ==
    IF chs = << >> THEN << >>
    ELSE IF Head(chs).file_path = p
         THEN <<Head(chs)>> \o chunks_of_file(Tail(chs), p)
         ELSE chunks_of_file(Tail(chs), p)

\* list.sort(key=lambda x: x["start_line"]): ascending and stable.
RECURSIVE sort_by_start_line(_)
sort_by_start_line(chs) ==
    IF chs = << >> THEN << >>
    ELSE LET c == chs[Len(chs)]
             front == sort_by_start_line(SubSeq(chs, 1, Len(chs) - 1))
             k == Cardinality({i \in 1..Len(front) :
                                  front[i].start_line <= c.start_line})
         IN SubSeq(front, 1, k) \o <<c>> \o SubSeq(front, k + 1, Len(front))

\* CompressorAgent._group_chunks_by_file
group_chunks_by_file(chs) ==
    LET paths == file_paths(chs)
    IN [i \in 1..Len(paths) |->
          [file_path |-> paths[i],
           chunks |-> sort_by_start_line(chunks_of_file(chs, paths[i]))]]

\* The parts the inner loop appends for the chunks of one file.
RECURSIVE chunk_parts(_)
chunk_parts(chs) ==
    IF chs = << >> THEN << >>
    ELSE <<[kind |-> "lines", id |-> Head(chs).id,
            len |-> 9 + digits(Head(chs).start_line)
                      + digits(Head(chs).end_line)],
           [kind |-> "content", id |-> Head(chs).id,
            len |-> Head(chs).content_len]>>
         \o chunk_parts(Tail(chs))

\* context_parts: for each file its header, then the first chunks_per_file
\* chunks of the file.
RECURSIVE context_parts(_)
context_parts(cbf) ==
    IF cbf = << >> THEN << >>
    ELSE <<[kind |-> "header", id |-> Head(cbf).file_path,
            len |-> 9 + Len(Head(cbf).file_path)]>>
         \o chunk_parts(SubSeq(Head(cbf).chunks, 1,
                               MinOf(chunks_per_file, Len(Head(cbf).chunks))))
         \o context_parts(Tail(cbf))

\* Where part i ends in "\n".join(parts), counted in characters.
RECURSIVE part_end(_, _)
part_end(parts, i) ==
    IF i = 0 THEN 0
    ELSE part_end(parts, i - 1) + (IF i > 1 THEN 1 ELSE 0) + parts[i].len

\* The context string: its parts, how many characters of the joined parts
\* it keeps, and whether the truncation marker was appended.
render_context(cbf) ==
    LET parts == context_parts(cbf)
        joined == part_end(parts, Len(parts))
    IN IF joined > max_context_chars
       THEN [parts |-> parts, kept |-> max_context_chars, truncated |-> TRUE,
             length |-> max_context_chars + TruncationMarkerLen]
       ELSE [parts |-> parts, kept |-> joined, truncated |-> FALSE,
             length |-> joined]

NoContext == [parts |-> << >>, kept |-> 0, truncated |-> FALSE, length |-> 0]

CompInit ==
    /\ kpc = "run"
    /\ kp_retrieved \in RetrievedInputs
    /\ chunks_by_file = << >>
    /\ context = NoContext

\* run calls _group_chunks_by_file.
GroupChunksByFile ==
    /\ kpc = "run"
    /\ chunks_by_file' = group_chunks_by_file(kp_retrieved)
    /\ kpc' = "compress_chunks"
    /\ UNCHANGED <<kp_retrieved, context>>
    /\ UNCHANGED <<wfVars, cacheVars, indexVars, chunkVars, embedVars, workerVars>>

\* _compress_chunks builds the context, up to the LLM call.
PrepareContext ==
    /\ kpc = "compress_chunks"
    /\ context' = render_context(chunks_by_file)
    /\ kpc' = "call_llm"
    /\ UNCHANGED <<kp_retrieved, chunks_by_file>>
    /\ UNCHANGED <<wfVars, cacheVars, indexVars, chunkVars, embedVars, workerVars>>

CompNext ==
    \/ GroupChunksByFile
    \/ PrepareContext

(***************************************************************************)
(*               INDEXING WORKER: the job queue in Redis                   *)
(***************************************************************************)

\* Jobs enqueued in the model; each has its own job_id (the API draws a
\* uuid4 for every request).
NumJobs == 2
JobIds == 1..NumJobs

\* worker_job while process_job is not running.
NoJob == 0

NewWorkerHist == [enqueued |-> << >>, dequeued |-> << >>]

WorkerInit ==
    /\ job_queue = << >>
    /\ job_status = [j \in JobIds |-> None]
    /\ job_result = [j \in JobIds |-> None]
    /\ enqueue_pc = [j \in JobIds |-> "not_called"]
    /\ worker_pc = "blpop"
    /\ worker_job = NoJob
    /\ worker_hist = NewWorkerHist

\* enqueue_indexing_job, first await: rpush of the job onto the queue.
EnqueueRpush(j) ==
    /\ enqueue_pc[j] = "not_called"
    /\ job_queue' = Append(job_queue, j)
    /\ enqueue_pc' = [enqueue_pc EXCEPT ![j] = "setex"]
    /\ worker_hist' = [worker_hist EXCEPT !.enqueued = Append(@, j)]
    /\ UNCHANGED <<job_status, job_result, worker_pc, worker_job>>
    /\ UNCHANGED <<wfVars, cacheVars, indexVars, chunkVars, embedVars, compVars>>

\* enqueue_indexing_job, second await: setex of the initial status.
EnqueueSetex(j) ==
    /\ enqueue_pc[j] = "setex"
    /\ job_status' = [job_status EXCEPT ![j] = "queued"]
    /\ enqueue_pc' = [enqueue_pc EXCEPT ![j] = "returned"]
    /\ UNCHANGED <<job_queue, job_result, worker_pc, worker_job, worker_hist>>
    /\ UNCHANGED <<wfVars, cacheVars, indexVars, chunkVars, embedVars, compVars>>

\* run: blpop returns the head of the queue (a timeout with the queue empty
\* leaves everything as it was); process_job is called with it.
Blpop ==
    /\ worker_pc = "blpop"
    /\ job_queue # << >>
    /\ worker_job' = Head(job_queue)
    /\ job_queue' = Tail(job_queue)
    /\ worker_pc' = "update_processing"
    /\ worker_hist' = [worker_hist EXCEPT !.dequeued = Append(@, Head(job_queue))]
    /\ UNCHANGED <<job_status, job_result, enqueue_pc>>
    /\ UNCHANGED <<wfVars, cacheVars, indexVars, chunkVars, embedVars, compVars>>

\* process_job: update_job_status(job_id, "processing", ...)
UpdateProcessing ==
    /\ worker_pc = "update_processing"
    /\ job_status' = [job_status EXCEPT ![worker_job] = "processing"]
    /\ worker_pc' = "init_repo"
    /\ UNCHANGED <<job_queue, job_result, enqueue_pc, worker_job, worker_hist>>
    /\ UNCHANGED <<wfVars, cacheVars, indexVars, chunkVars, embedVars, compVars>>

\* Variant: no except clause in process_job; run logs the error and goes
\* back to blpop.
after_init_repo_uncaught(raised) ==
    IF raised THEN "blpop" ELSE "update_completed"

\* Where process_job goes when init_repo has returned or raised.
after_init_repo(raised) ==
    IF raised THEN "update_failed" ELSE "update_completed"

\* process_job: await init_repo(...) returns a manifest path or raises.
InitRepo ==
    /\ worker_pc = "init_repo"
    /\ \E raised \in BOOLEAN : worker_pc' = after_init_repo(raised)
    /\ UNCHANGED <<job_queue, job_status, job_result, enqueue_pc, worker_job,
                   worker_hist>>
    /\ UNCHANGED <<wfVars, cacheVars, indexVars, chunkVars, embedVars, compVars>>

\* process_job: update_job_status(job_id, "completed", ..., result), first
\* setex (the status key).
UpdateCompleted ==
    /\ worker_pc = "update_completed"
    /\ job_status' = [job_status EXCEPT ![worker_job] = "completed"]
    /\ worker_pc' = "store_result"
    /\ UNCHANGED <<job_queue, job_result, enqueue_pc, worker_job, worker_hist>>
    /\ UNCHANGED <<wfVars, cacheVars, indexVars, chunkVars, embedVars, compVars>>

\* update_job_status, second setex (the result key); process_job returns.
StoreResult ==
    /\ worker_pc = "store_result"
    /\ job_result' = [job_result EXCEPT ![worker_job] = "manifest_path"]
    /\ worker_pc' = "blpop"
    /\ worker_job' = NoJob
    /\ UNCHANGED <<job_queue, job_status, enqueue_pc, worker_hist>>
    /\ UNCHANGED <<wfVars, cacheVars, indexVars, chunkVars, embedVars, compVars>>

\* process_job, except clause: update_job_status(job_id, "failed", ...);
\* process_job returns.
UpdateFailed ==
    /\ worker_pc = "update_failed"
    /\ job_status' = [job_status EXCEPT ![worker_job] = "failed"]
    /\ worker_pc' = "blpop"
    /\ worker_job' = NoJob
    /\ UNCHANGED <<job_queue, job_result, enqueue_pc, worker_hist>>
    /\ UNCHANGED <<wfVars, cacheVars, indexVars, chunkVars, embedVars, compVars>>

\* IndexingWorker.run: the steps of the worker's coroutine.
WorkerRun ==
    \/ Blpop
    \/ UpdateProcessing
    \/ InitRepo
    \/ UpdateCompleted
    \/ StoreResult
    \/ UpdateFailed

WorkerNext ==
    \/ \E j \in JobIds : EnqueueRpush(j)
    \/ \E j \in JobIds : EnqueueSetex(j)
    \/ WorkerRun

(***************************************************************************)
(*                            SPECIFICATIONS                               *)
(***************************************************************************)

ChunkOff ==
    /\ cpc = "off"
    /\ ck_content = << >>
    /\ language = None
    /\ lines = << >>
    /\ boundaries = << >>
    /\ section = 0
    /\ ck_chunk_index = 0
    /\ ck_chunks = << >>
    /\ chunk_hist = NewChunkHist

EmbedOff ==
    /\ epc = "off"
    /\ em_texts = << >>
    /\ em_i = 0
    /\ attempt_number = 0
    /\ em_results = << >>
    /\ em_raised = None
    /\ em_errors = << >>
    /\ em_hist = << >>

CompOff ==
    /\ kpc = "off"
    /\ kp_retrieved = << >>
    /\ chunks_by_file = << >>
    /\ context = NoContext

WorkerOff ==
    /\ job_queue = << >>
    /\ job_status = << >>
    /\ job_result = << >>
    /\ enqueue_pc = << >>
    /\ worker_pc = "off"
    /\ worker_job = NoJob
    /\ worker_hist = NewWorkerHist

WfOff ==
    /\ wpc = "off"
    /\ max_iterations = 0
    /\ current_iteration = 0
    /\ search_history = << >>
    /\ retrieved_chunks = << >>
    /\ total_tokens = 0
    /\ total_cost = 0
    /\ sufficient_context = FALSE
    /\ final_answer = None
    /\ search_query = None
    /\ log = << >>
    /\ turns = << >>
    /\ wf_hist = NewWfHist

IndexOff ==
    /\ ipc = "off"
    /\ semaphore = 0
    /\ run = 0
    /\ files = << >>
    /\ task = << >>
    /\ stats = NewStats
    /\ collection = [ids |-> {}, stale |-> 0]
    /\ index_hist = NewHist

\* One query, from AgenticRAG.query to the end of the graph.
InitWorkflow == WfInit /\ CacheInit /\ IndexOff /\ ChunkOff /\ EmbedOff /\ CompOff /\ WorkerOff

SpecWorkflow == InitWorkflow /\ [][WfNext]_vars

\* One EmbeddingCache, from its construction.
InitCache == WfOff /\ CacheInit /\ IndexOff /\ ChunkOff /\ EmbedOff /\ CompOff /\ WorkerOff

SpecCache == InitCache /\ [][CacheNext]_vars

\* One collection, indexed by init_repo and then once more.
InitIndex == WfOff /\ CacheInit /\ IndexInit /\ ChunkOff /\ EmbedOff /\ CompOff /\ WorkerOff

SpecIndex == InitIndex /\ [][IndexNext]_vars

\* One call of chunk_text, for every content and language.
InitChunker == WfOff /\ CacheInit /\ IndexOff /\ ChunkInit /\ EmbedOff /\ CompOff /\ WorkerOff

SpecChunker == InitChunker /\ [][ChunkNext]_vars

\* One call of embed_texts made by _process_file.
InitEmbed == WfOff /\ CacheInit /\ IndexOff /\ ChunkOff /\ EmbedInit /\ CompOff /\ WorkerOff

SpecEmbed == InitEmbed /\ [][EmbedNext]_vars

\* One call of CompressorAgent.run, for every list of retrieved chunks.
InitCompressor ==
    WfOff /\ CacheInit /\ IndexOff /\ ChunkOff /\ EmbedOff /\ CompInit
    /\ WorkerOff

SpecCompressor == InitCompressor /\ [][CompNext]_vars

\* One worker and the enqueue_indexing_job calls of the API, from the
\* moment the worker has connected.
InitWorker ==
    WfOff /\ CacheInit /\ IndexOff /\ ChunkOff /\ EmbedOff /\ CompOff
    /\ WorkerInit

SpecWorker == InitWorker /\ [][WorkerNext]_vars

\* The same, with the worker's coroutine resumed whenever the call it
\* awaits can return: blpop returns once the list holds a job, a status
\* write returns, init_repo returns or raises.
SpecWorkerFair == SpecWorker /\ WF_vars(WorkerRun)

(***************************************************************************)
(*                     CLAIMS ABOUT THE WORKFLOW                           *)
(***************************************************************************)

RetrieverTurns == Count(turns, "retriever_start")
CompressorTurns == Count(turns, "compressor_start")

StopCondition ==
    \/ sufficient_context
    \/ current_iteration >= max_iterations
    \/ total_tokens > max_tokens_retrieval

AfterRetrieval == wpc \in {"compress", "compressing", "done"}

\* C1 as stated: for every max_iterations = N, a query runs at most N
\* Retriever turns before it leaves RETRIEVE for COMPRESS.
C1_AtMostNTurns == RetrieverTurns <= max_iterations

\* C1, amended: a query runs at most max(N, 1) Retriever turns, and the
\* controller is never back at the entry of the retrieve node once that many
\* turns have started (the graph enters at "retrieve", so the first turn
\* runs whatever N is).
C1_AtMostMaxN1Turns ==
    /\ RetrieverTurns <= MaxOf(max_iterations, 1)
    /\ wpc = "retrieve" => RetrieverTurns < MaxOf(max_iterations, 1)

\* The N-th turn of a query with N = MaxIterationsBound found the context
\* insufficient and the controller has moved on to the compress node.
C1_Witness ==
    /\ wpc = "compress"
    /\ max_iterations = MaxIterationsBound
    /\ RetrieverTurns = max_iterations
    /\ ~sufficient_context

C3_StopIffCondition ==
    [][wpc = "route" =>
          /\ StopCondition => wpc' = "compress"
          /\ ~StopCondition => wpc' = "retrieve"]_vars

\* The controller has left RETRIEVE on the token budget alone.
C3_Witness ==
    /\ wpc = "compress"
    /\ ~sufficient_context
    /\ current_iteration < max_iterations
    /\ total_tokens > max_tokens_retrieval

\* C4: the Compressor runs at most once in a query and exactly once in a
\* query that reaches DONE; nothing but the end of its own turn follows its
\* start (no Retriever turn starts after it); its end is DONE; and every
\* turn that has started ends before any other turn starts (no overlap).
C4_CompressorOnceLastNoOverlap ==
    /\ CompressorTurns <= 1
    /\ wpc = "done" <=> (turns # << >> /\ turns[Len(turns)] = "compressor_end")
    /\ wpc = "done" => CompressorTurns = 1
    /\ \A i \in 1..Len(turns) : \A j \in (i + 1)..Len(turns) :
          /\ turns[i] = "compressor_start"
                => (j = i + 1 /\ turns[j] = "compressor_end")
          /\ (turns[i] = "retriever_start" /\ j = i + 1)
                => turns[j] = "retriever_end"
    /\ CompressorTurns = 1 =>
          /\ wpc \in {"compressing", "done", "failed"}
          /\ RetrieverTurns >= 1
          /\ Count(turns, "retriever_end") = RetrieverTurns

\* A query in DONE whose Compressor turn followed two Retriever turns and
\* made its LLM call.
C4_Witness ==
    /\ wpc = "done"
    /\ final_answer # None
    /\ turns = <<"retriever_start", "retriever_end", "retriever_start",
                 "retriever_end", "compressor_start", "compressor_end">>


\* The compression LLM's text is the structured answer record.
ReadableAsAnswer(text) ==
    /\ json_loads(text).kind = "object"
    /\ "answer" \in DOMAIN json_loads(text).value

\* C17: once the compression LLM has returned a text, Compressor.run does
\* not raise on it, and when the text is not the structured answer record
\* the response carries the raw text as the answer and no insights.
C17_CompressorNeverRaises ==
    wf_hist.compress_text # None =>
       /\ wf_hist.raised # "compression"
       /\ ~ReadableAsAnswer(wf_hist.compress_text) =>
             /\ wf_hist.response.content = wf_hist.compress_text
             /\ wf_hist.response.key_insights = << >>

\* C18: a Compressor turn over an empty retrieved_chunks makes no LLM call
\* and returns the fixed answer with zero tokens and zero cost.
C18_NothingRetrievedFixedAnswer ==
    (CompressorTurns >= 1 /\ retrieved_chunks = << >>) =>
       /\ wpc # "compressing"
       /\ wf_hist.compressor_llm_calls = 0
       /\ wf_hist.compress_text = None
       /\ wf_hist.response = [content |-> NothingRetrievedAnswer,
                              tokens_used |-> 0, cost_usd |-> 0,
                              key_insights |-> << >>]

\* A query whose two searches found nothing is in DONE with the fixed answer.
C18_Witness ==
    /\ wpc = "done"
    /\ retrieved_chunks = << >>
    /\ RetrieverTurns = 2
    /\ wf_hist.response.content = NothingRetrievedAnswer
    /\ wf_hist.compressor_llm_calls = 0

\* C19: no two entries of retrieved_chunks have the same id.
C19_NoDuplicateIds ==
    \A i, j \in 1..Len(retrieved_chunks) :
       i # j => retrieved_chunks[i] # retrieved_chunks[j]

\* Two turns whose searches each returned both ids, in different orders,
\* left each id once.
C19_Witness ==
    /\ wpc = "route"
    /\ Len(search_history) = 2
    /\ search_history[1].chunks_found = 2
    /\ search_history[2].chunks_found = 2
    /\ retrieved_chunks = <<"c2", "c1">>

\* C20: when a Retriever turn has ended, total_tokens and total_cost have
\* grown over the turn by the tokens and the cost of the turn's LLM calls.
C20_TurnUsageCounted ==
    (RetrieverTurns >= 1 /\ Count(turns, "retriever_end") = RetrieverTurns) =>
       /\ total_tokens = wf_hist.turn_start_tokens + wf_hist.turn_llm_tokens
       /\ total_cost = wf_hist.turn_start_cost + wf_hist.turn_llm_cost

Unparseable(text) == json_loads(text).kind = "JSONDecodeError"

NeverParseable ==
    \A i \in 1..Len(wf_hist.eval_texts) : Unparseable(wf_hist.eval_texts[i])

\* C21: a turn whose judgement json.loads rejects sets sufficient_context to
\* (current_iteration >= 2) with current_iteration as it stood during the
\* turn (the value its search-history entry holds); so when no judgement of
\* the query was parseable, max_iterations >= 3 and the token budget is not
\* exceeded, the loop goes on after the first and second turn and is left
\* after the third.
C21_FallbackAfterThirdTurn ==
    /\ (wpc = "route" /\ Unparseable(wf_hist.eval_text))
          => sufficient_context =
                (search_history[Len(search_history)].iteration >= 2)
    /\ (NeverParseable /\ max_iterations >= 3
           /\ total_tokens <= max_tokens_retrieval)
          => /\ AfterRetrieval => RetrieverTurns = 3
             /\ wpc = "retrieve" => RetrieverTurns < 3

C21_Witness ==
    /\ wpc = "done"
    /\ Len(wf_hist.eval_texts) = 3
    /\ NeverParseable
    /\ max_iterations >= 3
    /\ total_tokens <= max_tokens_retrieval
    /\ log = <<"sufficient_context">>

\* C24: when the query is done, state.final_answer is the answer the
\* Compressor returned, and is not missing.
C24_DoneHasAnswer ==
    wpc = "done" =>
       /\ final_answer = wf_hist.response.content
       /\ final_answer # None

\* The text is the judgement record run reads: a JSON object holding
\* "sufficient" and "reasoning".
ReadableAsJudgement(text) ==
    /\ json_loads(text).kind = "object"
    /\ {"sufficient", "reasoning"} \subseteq DOMAIN json_loads(text).value

\* C25: a turn whose evaluation response is not readable as the judgement
\* record does not raise: it ends with the fallback judgement, its
\* search-history entry appended and current_iteration incremented.
C25_UnreadableJudgementNeverRaises ==
    (wf_hist.eval_text # None /\ ~ReadableAsJudgement(wf_hist.eval_text)) =>
       /\ wf_hist.raised # "evaluation"
       /\ Len(search_history) = current_iteration
       /\ sufficient_context =
             fallback_sufficient(search_history[Len(search_history)].iteration)

(***************************************************************************)
(*                  CLAIMS ABOUT THE EMBEDDING CACHE                       *)
(***************************************************************************)

CachedTexts == Range(cache_keys(cache))

IsPutStep == cache_hist'.clock # cache_hist.clock
IsGetStep == hits' + misses' # hits + misses

\* C9: get(t) returns the result last put for t for as long as t has not
\* been evicted since that put, whatever other calls came in between, and
\* returns nothing for a text never put or evicted since its last put.
C9_GetReturnsLastPut ==
    /\ \A t \in Texts : cache_get(cache, t) = cache_hist.last_put[t]
    /\ cache_hist.last.op = "get"
          => cache_hist.last.result = cache_hist.last_put[cache_hist.last.text]

\* A get of "a" has returned r2, the later of two results put for "a", with
\* at least one put of another text and one miss among the calls so far.
C9_Witness ==
    /\ cache_hist.last = [op |-> "get", text |-> "a", result |-> "r2",
                          evicted |-> {}]
    /\ cache_hist.clock >= 3
    /\ misses >= 1
    /\ Len(cache) >= 2

\* C10: a put evicts at most one entry; the evicted entry is the one that
\* entered the cache earliest among the entries present; every other entry
\* present stays; and a get leaves the cache, order included, as it was.
C10_FifoEviction ==
    [][/\ IsPutStep =>
            LET evicted == cache_hist'.last.evicted
            IN /\ Cardinality(evicted) <= 1
               /\ evicted \subseteq CachedTexts
               /\ \A x \in evicted : \A y \in CachedTexts :
                     cache_hist.stamp[x] <= cache_hist.stamp[y]
               /\ CachedTexts \ evicted \subseteq Range(cache_keys(cache'))
               /\ Len(cache) >= max_size => Cardinality(evicted) = 1
       /\ IsGetStep => cache' = cache]_vars

\* A put of "c" into a full cache has just evicted "a", the oldest entry,
\* after at least one get hit.
C10_Witness ==
    /\ cache_hist.last.op = "put"
    /\ cache_hist.last.text = "c"
    /\ cache_hist.last.evicted = {"a"}
    /\ cache_keys(cache) = <<"b", "c">>
    /\ hits >= 1

\* C28: a put removes an entry only when the cache is full and the text
\* put is not cached yet; a put of a cached text replaces its value and
\* every text cached before the put is cached after it.
C28_EvictsOnlyOnOverflow ==
    [][IsPutStep =>
          LET put == cache_hist'.last
          IN /\ put.evicted # {} =>
                   (Len(cache) >= max_size /\ ~cache_has(cache, put.text))
             /\ cache_has(cache, put.text) =>
                   /\ cache_get(cache', put.text) = put.result
                   /\ CachedTexts \subseteq Range(cache_keys(cache'))]_vars

\* C37: whatever get and put calls were made, in whatever order, the cache
\* holds at most max_size entries and hits + misses is the number of get
\* calls made; no call lowers hits or misses.
C37_BoundedAndCounted ==
    /\ [](/\ Len(cache) <= max_size
          /\ hits + misses = cache_hist.gets)
    /\ [][hits' >= hits /\ misses' >= misses]_vars

\* A put into a full cache has just evicted an entry, after gets that hit
\* and gets that missed.
C37_Witness ==
    /\ cache_hist.last.op = "put"
    /\ cache_hist.last.evicted # {}
    /\ Len(cache) = max_size
    /\ hits >= 1
    /\ misses >= 1
    /\ cache_hist.gets = hits + misses

(***************************************************************************)
(*                     CLAIMS ABOUT THE INDEXER                            *)
(***************************************************************************)

InPipeline == {f \in Files : task[f].pc = "embedding"}
FinishedFiles == {f \in Files : task[f].pc = "finished"}

\* C5: at any moment of index_repository at most max_concurrent file tasks
\* are inside _process_file, and the semaphore counts the free slots.
C5_AtMostMaxConcurrent ==
    ipc \in {"start", "processing", "done", "raised"} =>
       /\ Cardinality(InPipeline) <= max_concurrent
       /\ semaphore = max_concurrent - Cardinality(InPipeline)

\* max_concurrent tasks are awaiting their embeddings while another file
\* is still waiting for a slot.
C5_Witness ==
    /\ ipc = "processing"
    /\ Cardinality(InPipeline) = max_concurrent
    /\ \E f \in Files : task[f].pc = "pending"

\* C6: each file that raised has exactly one entry in the error list and no
\* other file has one; every finished file is counted once, as processed,
\* skipped or errored; the manifest is written only when all n files have
\* finished; and index_repository raises only out of delete_repo or
\* get_repo_stats, never because of a file.
C6_FileErrorsAreRecorded ==
    ipc \in {"start", "processing", "done", "raised"} =>
       /\ Len(stats.errors) = Cardinality(index_hist.raised)
       /\ Range(stats.errors) = index_hist.raised
       /\ stats.files_processed + stats.files_skipped + Len(stats.errors)
             = Cardinality(FinishedFiles)
       /\ stats.files_processed
             = Cardinality({f \in Files : task[f].outcome = "processed"})
       /\ ipc = "done" => FinishedFiles = Files
       /\ ipc = "raised" => index_hist.cause \in {"delete_repo", "get_repo_stats"}

\* A run has completed with one unreadable file in the error list and all
\* the other files processed.
C6_Witness ==
    /\ ipc = "done"
    /\ files[1] = <<"unreadable">>
    /\ stats.errors = <<1>>
    /\ stats.files_processed = NumFiles - 1
    /\ stats.files_skipped = 0

\* C7: after a second run over unchanged content, with no file failing in
\* either run, the collection holds the same entries for the repo as after
\* the first run.
C7_SecondRunSameIds ==
    (ipc = "done" /\ run = 2 /\ index_hist.first_clean /\ index_hist.raised = {})
        => collection = index_hist.after_first

\* C8: when a run completes, the repo's entries in the collection are all
\* entries this run upserted: none written before the run is left.
C8_OnlyThisRunsEntries ==
    ipc = "done" =>
       /\ collection.stale = 0
       /\ collection.ids \subseteq index_hist.written

\* C11: during a run the embedding service is never asked to embed a text
\* that it was already asked to embed in this run and that the cache has
\* not evicted since, in the same request or in another file's request.
C11_EmbeddedAtMostOnce ==
    ipc \in {"start", "processing", "done", "raised"} =>
       index_hist.asked_again = {}

\* The batch upsert_chunks receives for a file: every chunk of the file
\* once, in chunk_index order, each with the embedding of its own content.
ExpectedBatch(f) ==
    [i \in 1..Len(chunks_of(files[f])) |->
        <<i - 1, chunks_of(files[f])[i][2],
          embedding_of(chunks_of(files[f])[i][2])>>]

\* C12: each processed file was upserted as one batch holding every chunk
\* of the file exactly once in ascending chunk_index order, the i-th vector
\* being the embedding of the i-th chunk's content, and the ids of the
\* batch went into the collection.
C12_BatchInChunkOrder ==
    \A f \in DOMAIN task :
       task[f].outcome = "processed" =>
          /\ task[f].batch = ExpectedBatch(f)
          /\ batch_ids(f, task[f].batch) \subseteq collection.ids

\* A file whose second chunk was a cache hit and whose first chunk was
\* newly embedded has been upserted: the hit came from a one-chunk file
\* processed before it.
C12_Witness ==
    \E f, g \in DOMAIN task :
       /\ files[f] = <<"text", <<"a">> >>
       /\ files[g] = <<"text", <<"b", "a">> >>
       /\ task[f].outcome = "processed"
       /\ task[g].outcome = "processed"
       /\ stats.embeddings_cached = 1
       /\ stats.embeddings_created = 2
       /\ cache_keys(cache) = <<"a", "b">>
       /\ task[g].batch = <<<<0, "b", embedding_of("b")>>,
                            <<1, "a", embedding_of("a")>> >>

\* The ids of file f among a set of ids.
IdsOfFile(ids, f) == {id \in ids : id[2] = f}

\* File f's task ends in this step as skipped or errored.
EndsUnprocessed(f) ==
    /\ task[f].pc # "finished"
    /\ task'[f].pc = "finished"
    /\ task'[f].outcome \in {"skipped", "error"}

\* File f's embedding call fails in this step: the task ends and no
\* embedding was created.
EmbeddingFails(f) ==
    /\ task[f].pc = "embedding"
    /\ task'[f].pc = "finished"
    /\ stats'.embeddings_created = stats.embeddings_created

\* C26: the step in which a file is skipped or recorded as errored writes
\* nothing to the collection and leaves every other file's task as it was;
\* a failed embedding call leaves the cache as it was; and in every state
\* the run has written no id of a skipped or errored file and has written
\* every id of each processed file, whatever happened to its siblings.
C26_FailuresLeaveNoEntry ==
    [][/\ \A f \in Files :
             /\ EndsUnprocessed(f) =>
                   /\ collection' = collection
                   /\ index_hist'.written = index_hist.written
                   /\ \A g \in Files \ {f} : task'[g] = task[g]
             /\ EmbeddingFails(f) => cache' = cache
       /\ \A f \in Files :
             /\ task'[f].outcome \in {"skipped", "error"} =>
                   IdsOfFile(index_hist'.written, f) = {}
             /\ task'[f].outcome = "processed" =>
                   /\ batch_ids(f, task'[f].batch) # {}
                   /\ IdsOfFile(index_hist'.written, f)
                         = batch_ids(f, task'[f].batch)
                   /\ batch_ids(f, task'[f].batch) \subseteq collection'.ids]_vars

\* A run has completed in which one file was skipped, one was recorded as
\* errored after its texts had been embedded and put in the cache (its
\* write was rejected), and one was processed and is in the collection.
C26_Witness ==
    /\ ipc = "done"
    /\ stats.files_skipped >= 1
    /\ stats.files_processed >= 1
    /\ \E f \in Files :
          /\ task[f].outcome = "error"
          /\ files[f][1] = "text"
          /\ stats.embeddings_created > stats.chunks_created
    /\ index_hist.written # {}
    /\ cache # << >>

\* C27: get_repo_stats is called and the manifest written only when every
\* file task has ended and every slot is free; no task changes in that step
\* or after it in the same run; the manifest is written at most once in a
\* run and exactly once in a run that completes.
C27_ManifestAfterAllTasks ==
    [][/\ (ipc = "processing" /\ ipc' # "processing") =>
             /\ \A f \in Files : task[f].pc = "finished"
             /\ semaphore = max_concurrent
             /\ task' = task
       /\ (index_hist'.manifests # index_hist.manifests /\ run' = run) =>
             (ipc = "processing" /\ ipc' = "done"
                 /\ index_hist'.manifests = index_hist.manifests + 1)
       /\ (ipc \in {"done", "raised"} /\ run' = run) => task' = task
       /\ index_hist'.manifests <= 1
       /\ ipc' = "done" => index_hist'.manifests = 1]_vars

\* The manifest of a run has been written after one file was skipped, one
\* errored and one was processed, two of them having run concurrently.
C27_Witness ==
    /\ ipc = "done"
    /\ run = 1
    /\ index_hist.manifests = 1
    /\ FinishedFiles = Files
    /\ stats.files_skipped = 1
    /\ Len(stats.errors) = 1
    /\ stats.files_processed = NumFiles - 2

(***************************************************************************)
(*                     CLAIMS ABOUT THE EMBEDDER                           *)
(***************************************************************************)

\* A rate-limit or a timeout failure.
Transient(outcome) == outcome \in {"RateLimitError", "APITimeoutError"}

\* C22: a batch call is attempted at most 3 times; every failure that was
\* followed by another attempt was a rate limit or a timeout; a failure of
\* another type is raised into _process_file as it is, at the attempt it
\* occurred in; three failed attempts raise into _process_file; and the
\* file is then recorded in stats["errors"] and _process_file returns.
C22_BoundedRetries ==
    /\ Len(em_hist) <= 3
    /\ attempt_number <= 3
    /\ \A k \in 1..(Len(em_hist) - 1) : Transient(em_hist[k])
    /\ (epc = "embed_batch" /\ em_hist # << >>)
          => Transient(em_hist[Len(em_hist)])
    /\ (em_hist # << >> /\ em_hist[Len(em_hist)] = "APIConnectionError")
          => (epc # "embed_batch" /\ em_raised = "APIConnectionError")
    /\ (Len(em_hist) = 3 /\ em_hist[3] # "ok")
          => (epc # "embed_batch" /\ em_raised # None)
    /\ em_raised # None =>
          /\ em_hist # << >> /\ em_hist[Len(em_hist)] # "ok"
          /\ epc \in {"process_file", "returned_false"}
    /\ epc = "returned_false" <=>
          (em_raised # None /\ em_errors = <<[file |-> "f", error |-> em_raised]>>)
    /\ epc = "embedded" =>
          (em_raised = None /\ em_errors = << >>
             /\ em_results = batch_results(em_texts))

\* The second batch of a file failed three times on rate limits and
\* timeouts, and the file has been recorded as errored.
C22_Witness ==
    /\ epc = "returned_false"
    /\ em_i > 0
    /\ em_hist = <<"RateLimitError", "APITimeoutError", "RateLimitError">>
    /\ attempt_number = 3
    /\ em_raised = "RetryError"
    /\ Len(em_errors) = 1

(***************************************************************************)
(*                     CLAIMS ABOUT THE CHUNKER                            *)
(***************************************************************************)

ChunksBuilt == cpc \in {"overlap", "returned"}
BeforeOverlap == chunk_hist.before_overlap
BoundaryTypes(chs) == {chs[i].metadata.boundary_type : i \in 1..Len(chs)}

\* C13: the chunks chunk_text returns carry their position as chunk_index
\* (0..len-1) and len as total_chunks, and the overlap pass leaves their
\* number and their order as they were.
C13_IndexIsPosition ==
    cpc = "returned" =>
       /\ \A i \in 1..Len(ck_chunks) :
             /\ ck_chunks[i].chunk_index = i - 1
             /\ ck_chunks[i].total_chunks = Len(ck_chunks)
       /\ Len(ck_chunks) = Len(BeforeOverlap)
       /\ \A i \in 1..Len(ck_chunks) :
             /\ ck_chunks[i].chunk_index = BeforeOverlap[i].chunk_index
             /\ ck_chunks[i].start_char = BeforeOverlap[i].start_char

\* Three chunks or more, semantic and token_split, were returned after an
\* overlap pass that changed some content.
C13_Witness ==
    /\ cpc = "returned"
    /\ Len(ck_chunks) >= 3
    /\ BoundaryTypes(ck_chunks) = {"semantic", "token_split"}
    /\ chunk_hist.overlap_passes = 1
    /\ \E i \in 1..Len(ck_chunks) : ck_chunks[i].content # BeforeOverlap[i].content

\* The lines of the chunks' contents, in chunk order.
RECURSIVE LinesOfAll(_)
LinesOfAll(chs) ==
    IF chs = << >> THEN << >>
    ELSE split_lines(Head(chs).content) \o LinesOfAll(Tail(chs))

\* C14: before the overlap pass, the contents of the chunks joined in
\* chunk order with line breaks are the content given to chunk_text, and
\* the lines of the chunks are the lines of the content, each once.
C14_LosslessCover ==
    ChunksBuilt =>
       /\ join_lines([i \in 1..Len(BeforeOverlap) |-> BeforeOverlap[i].content])
             = ck_content
       /\ LinesOfAll(BeforeOverlap) = split_lines(ck_content)

\* A content of four lines or more was cut into a semantic chunk and
\* token_split chunks.
C14_Witness ==
    /\ ChunksBuilt
    /\ Len(lines) >= 4
    /\ BoundaryTypes(BeforeOverlap) = {"semantic", "token_split"}

\* C15: chunk_text returns no chunk for the empty content.
C15_EmptyContentNoChunks ==
    (cpc = "returned" /\ ck_content = << >>) => ck_chunks = << >>

\* The lines of the content that start a section: the first one and every
\* line that matches a boundary pattern.
SectionStarts ==
    {0} \cup {i \in 0..(Len(split_lines(ck_content)) - 1) :
                 matches_pattern(split_lines(ck_content)[i + 1])}
DefinitionLines ==
    {i \in 0..(Len(split_lines(ck_content)) - 1) :
        matches_pattern(split_lines(ck_content)[i + 1])}
SectionBounds == sorted_set(SectionStarts \cup {Len(split_lines(ck_content))})
SectionOf(i) ==
    join_lines(py_slice(split_lines(ck_content), SectionBounds[i], SectionBounds[i + 1]))
AllSectionsFit ==
    \A i \in 1..(Len(SectionBounds) - 1) : count_tokens(SectionOf(i)) <= chunk_size

C23_TokenCountIsCurrent ==
    \A i \in 1..Len(ck_chunks) :
        ck_chunks[i].token_count = count_tokens(ck_chunks[i].content)

C23_Witness ==
    /\ cpc = "returned"
    /\ chunk_hist.overlap_passes = 1
    /\ \E i \in 1..Len(ck_chunks) :
          /\ ck_chunks[i].content # BeforeOverlap[i].content
          /\ ck_chunks[i].token_count # BeforeOverlap[i].token_count
          /\ ck_chunks[i].token_count = count_tokens(ck_chunks[i].content)

\* The file's lines a..b (1-indexed, inclusive) joined by line breaks.
LinesJoined(a, b) == join_lines(py_slice(lines, a - 1, b))

\* C29: every returned chunk has start_line <= end_line, and before the
\* overlap pass each chunk's content is the file's lines start_line..end_line
\* joined by line breaks and each chunk starts on the line after the one its
\* predecessor ends on.
C29_LineProvenance ==
    /\ cpc = "returned" =>
          \A i \in 1..Len(ck_chunks) :
              ck_chunks[i].start_line <= ck_chunks[i].end_line
    /\ ChunksBuilt =>
          /\ \A i \in 1..Len(BeforeOverlap) :
                 BeforeOverlap[i].content =
                     LinesJoined(BeforeOverlap[i].start_line,
                                 BeforeOverlap[i].end_line)
          /\ \A i \in 1..(Len(BeforeOverlap) - 1) :
                 BeforeOverlap[i + 1].start_line = BeforeOverlap[i].end_line + 1

\* The chunks a pass of the section loop appends.
Appended == SubSeq(ck_chunks', Len(ck_chunks) + 1, Len(ck_chunks'))

\* '\n'.join of the contents of the chunks
RECURSIVE JoinedContents(_)
JoinedContents(chs) ==
    IF chs = << >> THEN << >>
    ELSE IF Len(chs) = 1 THEN chs[1].content
    ELSE chs[1].content \o <<NL>> \o JoinedContents(Tail(chs))

\* C30: a pass of the section loop appends the section whole as one semantic
\* chunk if and only if the section's token count is <= chunk_size;
\* otherwise it appends token_split chunks that are the section cut at line
\* breaks, each within chunk_size unless it is a single line that alone
\* exceeds it.
C30_WholeIffWithinBudget ==
    [][section' = section + 1 =>
         IF count_tokens(SectionText) <= chunk_size
         THEN /\ Len(Appended) = 1
              /\ Appended[1].content = SectionText
              /\ Appended[1].metadata.boundary_type = "semantic"
         ELSE /\ Len(Appended) >= 1
              /\ JoinedContents(Appended) = SectionText
              /\ \A i \in 1..Len(Appended) :
                    /\ Appended[i].metadata.boundary_type = "token_split"
                    /\ \/ count_tokens(Appended[i].content) <= chunk_size
                       \/ Len(split_lines(Appended[i].content)) = 1]_vars

\* A section over the budget was returned as several token_split chunks,
\* one within the budget and one a single line that exceeds it.
C30_Witness ==
    /\ cpc = "returned"
    /\ Len(boundaries) = 2
    /\ Len(BeforeOverlap) >= 2
    /\ BoundaryTypes(BeforeOverlap) = {"token_split"}
    /\ \E i \in 1..Len(BeforeOverlap) :
          /\ count_tokens(BeforeOverlap[i].content) > chunk_size
          /\ Len(split_lines(BeforeOverlap[i].content)) = 1
    /\ \E i \in 1..Len(BeforeOverlap) :
          count_tokens(BeforeOverlap[i].content) <= chunk_size

\* The lines the overlap pass would take for chunk i (from 1) of chs: from
\* before its start (a window of 5 lines for the last chunk, 3 for a middle
\* one) and from the start of its successor (6 lines for the first chunk, 4
\* for a middle one).
CandidateBefore(chs, i) ==
    IF i = 1 THEN << >>
    ELSE py_slice(lines,
                  MaxOf(0, chs[i].start_line - (IF i = Len(chs) THEN 6 ELSE 4)),
                  chs[i].start_line - 1)

CandidateAfter(chs, i) ==
    IF i = Len(chs) THEN << >>
    ELSE py_slice(lines, chs[i + 1].start_line - 1,
                  chs[i + 1].start_line + (IF i = 1 THEN 5 ELSE 3))

CandidateTokens(chs, i) ==
    (IF i = 1 THEN 0 ELSE count_tokens(join_lines(CandidateBefore(chs, i))))
    + (IF i = Len(chs) THEN 0 ELSE count_tokens(join_lines(CandidateAfter(chs, i))))

\* The content of chunk i with its candidate overlap joined on by line breaks.
Padded(chs, i) ==
    (IF i = 1 THEN << >> ELSE join_lines(CandidateBefore(chs, i)) \o <<NL>>)
    \o chs[i].content
    \o (IF i = Len(chs) THEN << >> ELSE <<NL>> \o join_lines(CandidateAfter(chs, i)))

OverlapPassDone == cpc = "returned" /\ chunk_hist.overlap_passes = 1

\* C31 as stated: the pass runs at most once and only over more than one
\* chunk; the text it adds to a chunk (what the content has grown by) counts
\* at most chunk_overlap tokens; a chunk whose candidate overlap exceeds
\* chunk_overlap is left as it was.
C31_AddedTextWithinOverlap ==
    /\ chunk_hist.overlap_passes <= 1
    /\ chunk_hist.overlap_passes = 1 => Len(BeforeOverlap) > 1
    /\ OverlapPassDone =>
          \A i \in 1..Len(ck_chunks) :
             /\ count_tokens(ck_chunks[i].content)
                   - count_tokens(BeforeOverlap[i].content) <= chunk_overlap
             /\ CandidateTokens(BeforeOverlap, i) > chunk_overlap
                   => ck_chunks[i] = BeforeOverlap[i]

\* C31: the pass runs at most once and only over more than one chunk; the
\* lines it absorbs into a chunk count, joined, at most chunk_overlap tokens,
\* and they are joined to the content by one line break on each side used,
\* which the budget does not count; a chunk whose candidate overlap exceeds
\* chunk_overlap is left as it was.
C31_AbsorbedLinesWithinOverlap ==
    /\ chunk_hist.overlap_passes <= 1
    /\ chunk_hist.overlap_passes = 1 => Len(BeforeOverlap) > 1
    /\ cpc = "returned" =>
          (chunk_hist.overlap_passes = 1
              <=> (chunk_overlap > 0 /\ Len(BeforeOverlap) > 1))
    /\ OverlapPassDone =>
          \A i \in 1..Len(ck_chunks) :
             IF CandidateTokens(BeforeOverlap, i) > chunk_overlap
             THEN ck_chunks[i] = BeforeOverlap[i]
             ELSE /\ ck_chunks[i].content = Padded(BeforeOverlap, i)
                  /\ count_tokens(ck_chunks[i].content)
                        - count_tokens(BeforeOverlap[i].content)
                     <= chunk_overlap + (IF i \in {1, Len(ck_chunks)} THEN 1 ELSE 2)

\* The pass has padded one chunk with overlap text exactly at the budget and
\* left another, whose candidate exceeds it, as it was.
C31_Witness ==
    /\ OverlapPassDone
    /\ \E i \in 1..Len(ck_chunks) :
          /\ CandidateTokens(BeforeOverlap, i) = chunk_overlap
          /\ ck_chunks[i].content # BeforeOverlap[i].content
    /\ \E i \in 1..Len(ck_chunks) :
          /\ CandidateTokens(BeforeOverlap, i) > chunk_overlap
          /\ ck_chunks[i] = BeforeOverlap[i]

\* C32: the overlap pass returns as many chunks as it was given, each with
\* the start_char, end_char, chunk_index, total_chunks and metadata it had
\* before the pass.
C32_OverlapFrame ==
    ChunksBuilt =>
       /\ Len(ck_chunks) = Len(BeforeOverlap)
       /\ \A i \in 1..Len(ck_chunks) :
             /\ ck_chunks[i].start_char = BeforeOverlap[i].start_char
             /\ ck_chunks[i].end_char = BeforeOverlap[i].end_char
             /\ ck_chunks[i].chunk_index = BeforeOverlap[i].chunk_index
             /\ ck_chunks[i].total_chunks = BeforeOverlap[i].total_chunks
             /\ ck_chunks[i].metadata = BeforeOverlap[i].metadata

\* The pass has changed the content, the start_line and the token_count of
\* one chunk and the end_line of another.
C32_Witness ==
    /\ OverlapPassDone
    /\ \E i \in 1..Len(ck_chunks) :
          /\ ck_chunks[i].content # BeforeOverlap[i].content
          /\ ck_chunks[i].start_line # BeforeOverlap[i].start_line
          /\ ck_chunks[i].token_count # BeforeOverlap[i].token_count
    /\ \E i \in 1..Len(ck_chunks) :
          ck_chunks[i].end_line # BeforeOverlap[i].end_line


\* The query has left RETRIEVE for COMPRESS.
LeftRetrieve == wpc = "compress" \/ CompressorTurns > 0

\* C34: a query logs no reason while it is in RETRIEVE and exactly one from
\* the moment it leaves RETRIEVE, and that reason is the first that holds in
\* the order sufficient_context, max_iterations, token_limit.
C34_FirstReasonOnce ==
    /\ Len(log) <= 1
    /\ LeftRetrieve <=> Len(log) = 1
    /\ Len(log) = 1 =>
         /\ sufficient_context => log[1] = "sufficient_context"
         /\ (~sufficient_context /\ current_iteration >= max_iterations)
               => log[1] = "max_iterations"
         /\ (~sufficient_context /\ current_iteration < max_iterations)
               => /\ log[1] = "token_limit"
                  /\ total_tokens > max_tokens_retrieval

\* The query has left RETRIEVE with all three stop conditions holding.
C34_Witness ==
    /\ wpc = "compress"
    /\ sufficient_context
    /\ current_iteration >= max_iterations
    /\ total_tokens > max_tokens_retrieval
    /\ log = <<"sufficient_context">>


\* s is a prefix of t.
IsPrefix(s, t) == Len(s) <= Len(t) /\ SubSeq(t, 1, Len(s)) = s

\* C35: no step removes, moves or replaces an entry of retrieved_chunks: the
\* sequence before is a prefix of the sequence after, and what a search adds
\* is its result without the ids already present, in the order of the result.
C35_RetrievedChunksOnlyGrow ==
    [][/\ IsPrefix(retrieved_chunks, retrieved_chunks')
       /\ (wpc = "search" /\ wpc' = "evaluate") =>
             retrieved_chunks' =
                retrieved_chunks \o
                SelectSeq(wf_hist'.search_result,
                          LAMBDA c : \A i \in 1..Len(retrieved_chunks) :
                                        retrieved_chunks[i] # c)]_vars

\* A second search returned c2 ahead of the c1 already held: c1 has kept its
\* place and c2 has gone behind it.
C35_Witness ==
    /\ Len(search_history) = 2
    /\ search_history[1].chunks_found = 1
    /\ wf_hist.search_result = <<"c2", "c1">>
    /\ retrieved_chunks = <<"c1", "c2">>


\* No Retriever turn is under way: the query is about to start one, is at
\* the router, or has left RETRIEVE without an exception in a turn.
AtTurnBoundary ==
    \/ wpc \in {"retrieve", "route"}
    \/ LeftRetrieve

\* C36: between turns search_history has current_iteration entries, the
\* i-th of them with iteration i-1, and no step changes or drops an entry
\* the history already holds.
C36_HistoryMatchesIteration ==
    /\ [](AtTurnBoundary =>
            /\ Len(search_history) = current_iteration
            /\ \A i \in 1..Len(search_history) :
                  search_history[i].iteration = i - 1)
    /\ [][IsPrefix(search_history, search_history')]_vars

\* Two turns are over and the history holds their two entries.
C36_Witness ==
    /\ wpc = "route"
    /\ current_iteration = 2
    /\ Len(search_history) = 2
    /\ search_history[1].iteration = 0
    /\ search_history[2].iteration = 1


(***************************************************************************)
(*                    CLAIMS ABOUT THE COMPRESSOR                          *)
(***************************************************************************)

ContextPrepared == kpc = "call_llm"

\* Some character of the chunk's content is in the context string.
InContext(id) ==
    \E i \in 1..Len(context.parts) :
       /\ context.parts[i].kind = "content"
       /\ context.parts[i].id = id
       /\ part_end(context.parts, i) - context.parts[i].len < context.kept

\* The groups are one per file path, and each holds the retrieved chunks of
\* its file in ascending start_line order.
GroupedAndSorted ==
    /\ \A i, j \in 1..Len(chunks_by_file) :
          i # j => chunks_by_file[i].file_path # chunks_by_file[j].file_path
    /\ \A i \in 1..Len(chunks_by_file) :
          LET g == chunks_by_file[i]
          IN /\ Range(g.chunks) =
                   {c \in Range(kp_retrieved) : c.file_path = g.file_path}
             /\ Len(g.chunks) = Cardinality(Range(g.chunks))
             /\ g.chunks # << >>
             /\ \A a, b \in 1..Len(g.chunks) :
                   a < b => g.chunks[a].start_line <= g.chunks[b].start_line

\* C33: the chunks are grouped by file and ordered by start line within a
\* file, and every retrieved chunk is in the context string unless the
\* string ends with the truncation marker.
C33_NoChunkLeftOutUnmarked ==
    ContextPrepared =>
       /\ GroupedAndSorted
       /\ \A i \in 1..Len(kp_retrieved) :
             InContext(kp_retrieved[i].id) \/ context.truncated


(***************************************************************************)
(*                 CLAIMS ABOUT THE INDEXING WORKER                        *)
(***************************************************************************)

WorkerWritten == {"processing", "completed", "failed"}
Terminal == {"completed", "failed"}

\* C38: a stored status only moves forward: once it is processing,
\* completed or failed it is never queued again, and a completed or failed
\* status stays what it is.
C38_StatusOnlyForward ==
    [][\A j \in JobIds :
          /\ job_status[j] \in WorkerWritten => job_status'[j] # "queued"
          /\ job_status[j] \in Terminal => job_status'[j] = job_status[j]]_vars


\* process_job has just been called with job j.
Dequeued(j) == worker_pc = "update_processing" /\ worker_job = j

\* init_repo has raised for job j.
IndexingFailed(j) == worker_pc = "update_failed" /\ worker_job = j

=============================================================================
